---------------------------- MODULE Spec2Model ----------------------------
(***************************************************************************)
(* A model of SimMeR (simmer-python): the segment collision kernel, the    *)
(* wall optimizer, the drive kinematics and the robot's collision-gated    *)
(* motion.                                                                 *)
(*                                                                         *)
(* Numbers.  Python floats are modelled as binary floating-point numbers   *)
(* with MantissaBits significant bits over an integer grid of base units:  *)
(* every float addition, subtraction and multiplication of the source is  *)
(* the exact integer result rounded to nearest, ties to even (Fl).         *)
(* min, max, comparison and negation are exact, as in IEEE-754.            *)
(* Lengths are counted in length units, angles in angle units of a quarter *)
(* turn, so that pygame's Vector2.rotate is exact on the integer lattice.  *)
(***************************************************************************)
EXTENDS Integers, Sequences, FiniteSets, TLC

VARIABLES
    \* ---- robot.py / devices/drive.py / devices/motors.py
    drives,            \* Robot.drives: id -> Drive object (constant fields)
    move_buffer,       \* Drive.move_buffer, per drive id
    odometer,          \* MotorSimple.odometer, per motor id
    position,          \* Robot.position
    rotation,          \* Robot.rotation
    outline_global,    \* Robot.outline_global
    frame,             \* parity of the main loop's frame count
    calls,             \* how many commands and key frames so far
    last,              \* the last operation run and what it returned
    tracked,           \* the last accepted drive command and what was executed of it
    \* ---- maze.py / utilities.optimize_walls
    wall_map,          \* CONFIG.walls as read by Maze.import_walls
    reduced_walls,     \* Maze.reduced_walls
    \* ---- utilities.merge_*_line_segments
    line_segments,     \* the list handed to the merge function
    merged_once,       \* merge(line_segments)
    merged_twice,      \* merge(merge(line_segments))
    \* ---- utilities.collision / utilities.check_collision_fast
    segment1,
    segment2,
    collisions,        \* utilities.collision(segment1, segment2)
    collides_fast,     \* utilities.check_collision_fast(segment1, segment2)
    \* ---- interface/communication.py: packetize and depacketize
    data,              \* the payload handed to packetize
    packet,            \* packetize(data)
    data_raw,          \* the raw string handed to depacketize
    depacketized,      \* depacketize(data_raw)
    \* ---- interface/communication.py: TCPServer, and the main loop of simmer.py
    buffer_rx,         \* TCPServer.buffer_rx
    buffer_tx,         \* TCPServer.buffer_tx
    listener,          \* cmd_listener: its position and the data it holds
    transmitter,       \* response_transmitter: its position and the packet it holds
    threads,           \* the listener, the transmitter and the main loop: running or the exception that ended it
    sent,              \* what client_socket.send has handed to the client
    cmds,              \* the main loop's cmds of the last tick that had any
    responses,         \* the main loop's responses of that tick
    simulated,         \* the simulate calls Robot.command made in that tick
    batches,           \* the number of ticks whose responses are in buffer_tx
    \* ---- devices/ultrasonic.py: Ultrasonic.simulate
    sensor,            \* the sensor's position_global and rotation_global
    walls_to_check,    \* the wall segments simulate tests, in the order it tests them
    rays,              \* Ultrasonic.rays
    ray_lengths_squared, \* Ultrasonic.ray_lengths_squared
    output,            \* the reading simulate hands to add_error
    \* ---- the receive slot followed statement by statement
    main,              \* get_buffer_rx in the main loop: its position and the data it holds
    stored,            \* the payloads the listener has written to buffer_rx
    returned,          \* the payloads get_buffer_rx has returned to a tick
    pc                 \* position of the harness applying a pure function

robot_vars == <<drives, move_buffer, odometer, position, rotation, outline_global,
                frame, calls, last, tracked>>
maze_vars == <<wall_map, reduced_walls>>
merge_vars == <<line_segments, merged_once, merged_twice>>
kernel_vars == <<segment1, segment2, collisions, collides_fast>>
packet_vars == <<data, packet, data_raw, depacketized>>
comm_vars == <<buffer_rx, buffer_tx, listener, transmitter, threads, sent,
               cmds, responses, simulated, batches>>
interface_vars == <<packet_vars, comm_vars>>
sensor_vars == <<sensor, walls_to_check, rays, ray_lengths_squared, output>>
slot_vars == <<main, stored, returned>>
vars == <<robot_vars, maze_vars, merge_vars, kernel_vars, interface_vars,
          sensor_vars, slot_vars, pc>>

(***************************************************************************)
(* Bounds of the model.                                                    *)
(***************************************************************************)
MantissaBits == 3      \* significant bits of the modelled float
MaxTrack == 16         \* |executed| is tracked exactly up to this magnitude
MaxValue == 12         \* the largest commanded value
MaxCalls == 2          \* drive commands, 'xx' commands and key frames in a run

(***************************************************************************)
(* Floating point.                                                         *)
(***************************************************************************)
Abs(n) == IF n < 0 THEN -n ELSE n

Sign(n) == IF n < 0 THEN -1 ELSE IF n > 0 THEN 1 ELSE 0

Min(a, b) == IF b < a THEN b ELSE a

Max(a, b) == IF b > a THEN b ELSE a

RECURSIVE Pow2(_)
Pow2(k) == IF k = 0 THEN 1 ELSE 2 * Pow2(k - 1)

\* One more than the largest mantissa.
Radix == Pow2(MantissaBits)

\* The spacing of the floats around magnitude a: the least power of two q
\* (from q up) with a \div q < Radix.
RECURSIVE Ulp(_, _)
Ulp(a, q) == IF a \div q < Radix THEN q ELSE Ulp(a, 2 * q)

\* The float nearest to the integer n, ties to the even mantissa.
Fl(n) ==
    LET a == Abs(n)
        q == Ulp(a, 1)
        lo == (a \div q) * q
        rem == a - lo
        up == lo + q
        r == IF 2 * rem < q THEN lo
             ELSE IF 2 * rem > q THEN up
             ELSE IF (lo \div q) % 2 = 0 THEN lo ELSE up
    IN  IF n < 0 THEN -r ELSE r

IsFloat(n) == Fl(n) = n

\* a / b in floats, at the resolution of the base unit.
FlDiv(a, b) == Sign(a) * Sign(b) * Fl((2 * Abs(a) + Abs(b)) \div (2 * Abs(b)))

(***************************************************************************)
(* pygame.math.Vector2 on the integer lattice.                             *)
(***************************************************************************)
VAdd(u, v) == <<u[1] + v[1], u[2] + v[2]>>

VSub(u, v) == <<u[1] - v[1], u[2] - v[2]>>

VScale(u, k) == <<u[1] * k, u[2] * k>>

Dot(u, v) == u[1] * v[1] + u[2] * v[2]

\* Vector2.rotate(angle): counterclockwise, angle in quarter turns.
Rotate(v, angle) ==
    LET k == angle % 4
    IN  IF k = 0 THEN v
        ELSE IF k = 1 THEN <<-v[2], v[1]>>
        ELSE IF k = 2 THEN <<-v[1], -v[2]>>
        ELSE <<v[2], -v[1]>>

\* Vector2.length(); the vectors of the model are axis-aligned.
Length(v) == IF v[1] = 0 THEN Abs(v[2]) ELSE IF v[2] = 0 THEN Abs(v[1])
             ELSE CHOOSE n \in 0..(Abs(v[1]) + Abs(v[2])) : n * n = Dot(v, v)

\* Vector2.normalize() of a non-zero axis-aligned vector.
Normalize(v) == <<v[1] \div Length(v), v[2] \div Length(v)>>

(***************************************************************************)
(* utilities.py: the segment collision kernel.  A point is <<x, y>>, a     *)
(* segment <<p, q>>.                                                       *)
(***************************************************************************)
\* collision.on_segment(p, q, r): q lies in the bounding box of (p, r).
on_segment(p, q, r) ==
    /\ q[1] <= Max(p[1], r[1])
    /\ q[1] >= Min(p[1], r[1])
    /\ q[2] <= Max(p[2], r[2])
    /\ q[2] >= Min(p[2], r[2])

\* collision.orientation(p, q, r): 0 collinear, 1 clockwise, 2 counterclockwise.
orientation(p, q, r) ==
    LET val == (q[2] - p[2]) * (r[1] - q[1]) - (q[1] - p[1]) * (r[2] - q[2])
    IN  IF val > 0 THEN 1 ELSE IF val < 0 THEN 2 ELSE 0

\* collision.intersect(p1, q1, p2, q2): <<intersects, collinear points>>.
intersect(p1, q1, p2, q2) ==
    LET o1 == orientation(p1, q1, p2)
        o2 == orientation(p1, q1, q2)
        o3 == orientation(p2, q2, p1)
        o4 == orientation(p2, q2, q1)
        collision_points ==
            (IF o1 = 0 /\ on_segment(p1, p2, q1) THEN <<p2>> ELSE <<>>)
            \o (IF o2 = 0 /\ on_segment(p1, q2, q1) THEN <<q2>> ELSE <<>>)
            \o (IF o3 = 0 /\ on_segment(p2, p1, q2) THEN <<p1>> ELSE <<>>)
            \o (IF o4 = 0 /\ on_segment(p2, q1, q2) THEN <<q1>> ELSE <<>>)
    IN  IF o1 # o2 /\ o3 # o4 THEN <<TRUE, <<>>>>
        ELSE IF collision_points # <<>> THEN <<TRUE, collision_points>>
        ELSE <<FALSE, <<>>>>

\* collision.det(a, b).
det(a, b) == a[1] * b[2] - a[2] * b[1]

\* utilities.collision(segment1, segment2): the list of intersection points.
\* A crossing point computed by the determinant formula is the quotient
\* <<det(d, dx), det(d, dy)>> / div, kept as <<numerator x, numerator y, div>>.
collision(s1, s2) ==
    LET intersections == intersect(s1[1], s1[2], s2[1], s2[2])
        dx == <<s1[1][1] - s1[2][1], s2[1][1] - s2[2][1]>>
        dy == <<s1[1][2] - s1[2][2], s2[1][2] - s2[2][2]>>
        div == det(dx, dy)
        d == <<det(s1[1], s1[2]), det(s2[1], s2[2])>>
    IN  IF intersections[1]
        THEN IF intersections[2] = <<>>
             THEN IF div # 0 THEN << <<det(d, dx), det(d, dy), div>> >> ELSE <<>>
             ELSE intersections[2]
        ELSE <<>>

\* A bounding box test that leaves the box's border out.
onSegment_open(p, q, r) ==
    /\ q[1] < Max(p[1], r[1])
    /\ q[1] > Min(p[1], r[1])
    /\ q[2] < Max(p[2], r[2])
    /\ q[2] > Min(p[2], r[2])

\* check_collision_fast.onSegment(p, q, r).
onSegment(p, q, r) ==
    /\ q[1] <= Max(p[1], r[1])
    /\ q[1] >= Min(p[1], r[1])
    /\ q[2] <= Max(p[2], r[2])
    /\ q[2] >= Min(p[2], r[2])

\* check_collision_fast.orientation(p, q, r).
orientation_fast(p, q, r) ==
    LET val == (q[2] - p[2]) * (r[1] - q[1]) - (q[1] - p[1]) * (r[2] - q[2])
    IN  IF val > 0 THEN 1 ELSE IF val < 0 THEN 2 ELSE 0

\* utilities.check_collision_fast(s1, s2).
check_collision_fast(s1, s2) ==
    LET o1 == orientation_fast(s1[1], s1[2], s2[1])
        o2 == orientation_fast(s1[1], s1[2], s2[2])
        o3 == orientation_fast(s2[1], s2[2], s1[1])
        o4 == orientation_fast(s2[1], s2[2], s1[2])
    IN  IF o1 # o2 /\ o3 # o4 THEN TRUE
        ELSE IF o1 = 0 /\ onSegment(s1[1], s2[1], s1[2]) THEN TRUE
        ELSE IF o2 = 0 /\ onSegment(s1[1], s2[2], s1[2]) THEN TRUE
        ELSE IF o3 = 0 /\ onSegment(s2[1], s1[1], s2[2]) THEN TRUE
        ELSE IF o4 = 0 /\ onSegment(s2[1], s1[2], s2[2]) THEN TRUE
        ELSE FALSE

(***************************************************************************)
(* utilities.py: the wall optimizer.  Python compares lists (points,       *)
(* segments) lexicographically.                                            *)
(***************************************************************************)
PointLess(p, q) == p[1] < q[1] \/ (p[1] = q[1] /\ p[2] < q[2])

\* max(p, q) of two points (the first when they are equal).
PointMax(p, q) == IF PointLess(p, q) THEN q ELSE p

SegLess(a, b) == PointLess(a[1], b[1]) \/ (a[1] = b[1] /\ PointLess(a[2], b[2]))

\* line_segments[i].sort(): the two points in lexicographic order.
SortPoints(ls) == IF PointLess(ls[2], ls[1]) THEN <<ls[2], ls[1]>> ELSE ls

\* ls.sort(key=lambda pt: pt[1]): the two points by y (stable).
SortPointsByY(ls) == IF ls[2][2] < ls[1][2] THEN <<ls[2], ls[1]>> ELSE ls

\* line_segments.sort().
SortSegments(segs) == SortSeq(segs, SegLess)

\* A count that finds every element once.
Count_once(segs, e) == 1

\* The number of occurrences of e in the list.
Count(segs, e) == Cardinality({i \in 1..Len(segs) : segs[i] = e})

\* utilities.is_vertical(line_segment).
is_vertical(ls) == ls[1][1] = ls[2][1]

\* utilities.slopeIntercept(segment).  For a non-vertical segment the slope
\* is dy / dx and the intercept y0 - slope * x0; the segments of the model
\* have dx dividing dy, for which both are exact in floats.  dx = 0 gives the
\* slope inf and an intercept of -inf, inf or nan.  A float is <<kind, n>>.
slopeIntercept(segment) ==
    LET dx == segment[2][1] - segment[1][1]
        dy == segment[2][2] - segment[1][2]
    IN  IF dx = 0
        THEN << <<"inf", 0>>,
                IF segment[1][1] > 0 THEN <<"-inf", 0>>
                ELSE IF segment[1][1] < 0 THEN <<"inf", 0>> ELSE <<"nan", 0>> >>
        ELSE << <<"num", dy \div dx>>,
                <<"num", segment[1][2] - (dy \div dx) * segment[1][1]>> >>

\* (slope, intercept) == (slope, intercept) of Python tuples: nan equals nothing.
SameSlopeIntercept(a, b) == a = b /\ a[2][1] # "nan"

\* utilities.remove_duplicates(sorted_list): the elements that occur once.
remove_duplicates(sorted_list) ==
    SelectSeq(sorted_list, LAMBDA e : Count(sorted_list, e) = 1)

\* The inner loop of merge_sloped_line_segments over segs[k..]: the run that
\* starts at segs[i]; returns <<current_segment, merged_indices>>.
RECURSIVE sloped_inner(_, _, _, _, _)
sloped_inner(segs, i, k, current_segment, merged_indices) ==
    IF k > Len(segs) THEN <<current_segment, merged_indices>>
    ELSE IF segs[k][1][1] > current_segment[2][1]
         THEN <<current_segment, merged_indices>>
    ELSE IF SameSlopeIntercept(slopeIntercept(segs[i]), slopeIntercept(segs[k]))
         THEN sloped_inner(segs, i, k + 1,
                           <<current_segment[1], PointMax(segs[i][2], segs[k][2])>>,
                           merged_indices \cup {k})
    ELSE sloped_inner(segs, i, k + 1, current_segment, merged_indices)

\* The outer loop of merge_sloped_line_segments.
RECURSIVE sloped_outer(_, _, _, _)
sloped_outer(segs, i, merged_indices, merged_segments) ==
    IF i > Len(segs) THEN merged_segments
    ELSE IF i \in merged_indices
         THEN sloped_outer(segs, i + 1, merged_indices, merged_segments)
    ELSE LET run == sloped_inner(segs, i, i + 1, segs[i], merged_indices)
         IN  sloped_outer(segs, i + 1, run[2], Append(merged_segments, run[1]))

\* utilities.merge_sloped_line_segments(line_segments).
merge_sloped_line_segments(segs) ==
    IF segs = <<>> THEN <<>>
    ELSE LET sorted == SortSegments([i \in 1..Len(segs) |-> SortPoints(segs[i])])
             non_duplicate_segments == remove_duplicates(sorted)
         IN  sloped_outer(non_duplicate_segments, 1, {}, <<>>)

\* The loop of merge_vertical_line_segments over segs[k..].
RECURSIVE vertical_loop(_, _, _, _)
vertical_loop(segs, k, current_segment, merged_segments) ==
    IF k > Len(segs) THEN Append(merged_segments, current_segment)
    ELSE IF /\ current_segment[1][1] = segs[k][1][1]
            /\ current_segment[2][2] >= segs[k][1][2]
         THEN vertical_loop(segs, k + 1,
                  <<current_segment[1],
                    <<current_segment[1][1], Max(current_segment[2][2], segs[k][2][2])>> >>,
                  merged_segments)
    ELSE vertical_loop(segs, k + 1, segs[k], Append(merged_segments, current_segment))

\* What a call gives: the list it returns, or the exception it raises.
Returns(segs) == [raises |-> "", segments |-> segs]

Raises(exception) == [raises |-> exception, segments |-> <<>>]

\* utilities.merge_vertical_line_segments(line_segments).
merge_vertical_line_segments(segs) ==
    IF segs = <<>> THEN Returns(<<>>)
    ELSE IF \E i \in 1..Len(segs) : ~is_vertical(segs[i]) THEN Raises("ValueError")
    ELSE LET sorted == SortSegments([i \in 1..Len(segs) |-> SortPointsByY(segs[i])])
             non_duplicate_segments == remove_duplicates(sorted)
         IN  IF non_duplicate_segments = <<>> THEN Raises("IndexError")
             ELSE Returns(vertical_loop(non_duplicate_segments, 2,
                                        non_duplicate_segments[1], <<>>))

\* utilities.optimize_walls(line_segments).
optimize_walls(segs) ==
    IF segs = <<>> THEN Returns(<<>>)
    ELSE LET sorted == SortSegments([i \in 1..Len(segs) |-> SortPoints(segs[i])])
             \* Counter(...): the elements with count 1, in first-occurrence order
             fewer_segments == SelectSeq(sorted, LAMBDA e : Count(sorted, e) = 1)
             vert == SelectSeq(fewer_segments, is_vertical)
             non_vert == SelectSeq(fewer_segments, LAMBDA ls : ~is_vertical(ls))
             merged_vert == merge_vertical_line_segments(vert)
         IN  IF merged_vert.raises # "" THEN merged_vert
             ELSE Returns(merge_sloped_line_segments(non_vert) \o merged_vert.segments)

(***************************************************************************)
(* maze.py: Maze.import_walls.  wall_map is a sequence of rows (index y),  *)
(* each a sequence of cells (index x); a cell equal to 0 is a wall block.  *)
(***************************************************************************)
wall_segment_length == 4    \* CONFIG.wall_segment_length, in length units

\* The four walls of the square with corners (x0, y0) and (x1, y1).
Square(x0, y0, x1, y1) ==
    << << <<x0, y0>>, <<x1, y0>> >>,
       << <<x1, y0>>, <<x1, y1>> >>,
       << <<x1, y1>>, <<x0, y1>> >>,
       << <<x0, y1>>, <<x0, y0>> >> >>

\* The wall squares of the cells from index n on, columns outermost
\* (for ct_x ... for ct_y ...); n counts ct_x * dim_y + ct_y.
RECURSIVE CellSquares(_, _)
CellSquares(map, n) ==
    LET dim_y == Len(map)
        dim_x == Len(map[1])
        ct_x == n \div dim_y
        ct_y == n % dim_y
    IN  IF n >= dim_x * dim_y THEN <<>>
        ELSE (IF map[ct_y + 1][ct_x + 1] = 0
              THEN Square(ct_x, ct_y, ct_x + 1, ct_y + 1) ELSE <<>>)
             \o CellSquares(map, n + 1)

\* "Convert to length".
ScaleSegment(ls, k) == <<VScale(ls[1], k), VScale(ls[2], k)>>

\* Maze.walls: the flattened, scaled wall squares, outer boundary first.
maze_walls(map) ==
    LET dim_y == Len(map)
        dim_x == Len(map[1])
        flat == Square(0, 0, dim_x, dim_y) \o CellSquares(map, 0)
    IN  [i \in 1..Len(flat) |-> ScaleSegment(flat[i], wall_segment_length)]

\* Maze.import_walls: Maze.reduced_walls for CONFIG.walls = map.
import_walls(map) == optimize_walls(maze_walls(map))

(***************************************************************************)
(* config.py: the robot, its motors and the candidate drive definitions.   *)
(***************************************************************************)
frame_rate == 60            \* CONFIG.frame_rate

MotorIds == {"m0", "m1"}

\* config.py m0_info, m1_info: position and rotation of each motor.
motor_info ==
    [m \in MotorIds |->
        IF m = "m0" THEN [position |-> <<2, 0>>, rotation |-> 0]
        ELSE [position |-> <<-2, 0>>, rotation |-> 0]]

\* devices/device.py Device.__init__: point_vector = Vector2(0, 1).rotate(rotation).
MotorSimple(info) ==
    [position |-> info.position,
     rotation |-> info.rotation,
     point_vector |-> Rotate(<<0, 1>>, info.rotation)]

motors == [m \in MotorIds |-> MotorSimple(motor_info[m])]

\* The forward drive and the rotation drive of CONFIG.drives, in dict order.
DriveOrder == <<"w0", "r0">>

DriveIds == {DriveOrder[i] : i \in 1..Len(DriveOrder)}

NoBias == [x |-> 0, y |-> 0, rotation |-> 0]

\* A drive definition in the form of config.py's w0_info, r0_info.
Info(velocity, ang_velocity, motor_direction, bias, error) ==
    [velocity |-> velocity, ang_velocity |-> ang_velocity,
     motors |-> <<"m0", "m1">>, motor_direction |-> motor_direction,
     bias |-> bias, error |-> error]

\* The drive definitions the model draws from: config.py's forward drive
\* (w0) and rotation drive (r0) at three length units and two angle units
\* per frame, and variations the constructor accepts as well: a slower
\* drive, a negative angular velocity, neither velocity, both velocities,
\* a rotation bias, an error.
w0_info == Info(<<0, 180>>, 0, <<1, 1>>, NoBias, NoBias)
r0_info == Info(<<0, 0>>, 120, <<1, -1>>, NoBias, NoBias)
slow_info == Info(<<0, 60>>, 0, <<1, 1>>, NoBias, NoBias)
reverse_info == Info(<<0, 0>>, -120, <<1, -1>>, NoBias, NoBias)
still_info == Info(<<0, 0>>, 0, <<1, 1>>, NoBias, NoBias)
both_info == Info(<<0, 60>>, 60, <<1, 1>>, NoBias, NoBias)
biased_info == Info(<<0, 180>>, 0, <<1, 1>>, [x |-> 0, y |-> 0, rotation |-> 1], NoBias)
noisy_info == Info(<<0, 180>>, 0, <<1, 1>>, NoBias, [x |-> 0, y |-> 1, rotation |-> 0])

\* CONFIG.drives as <<w0, r0>>: the configurations a run starts from.
Configurations ==
    { <<w0_info, r0_info>>, <<slow_info, reverse_info>>, <<still_info, both_info>>,
      <<biased_info, noisy_info>> }

(***************************************************************************)
(* devices/drive.py                                                        *)
(***************************************************************************)
\* The arc a motor at the given radius travels per angle unit of rotation:
\* 1/360 * 2 * pi * radius per degree, a quarter turn being pi / 2 = 1.57.
ArcPerAngleUnit(radius) == Fl((157 * radius + 50) \div 100)

\* |cos| of the angle between two axis-aligned vectors, the first a unit vector.
AbsCos(u, v) == Abs(Dot(u, v)) \div Length(v)

\* Drive._get_odometer_multiplier for one motor.  The motors of the model
\* point along or against the direction of motion (slip_compensation = 1).
odometer_multiplier(velocity, velocity_direction, rotation_speed, motor, direction) ==
    IF Length(velocity) # 0
    THEN direction \div AbsCos(velocity_direction, motor.point_vector)
    ELSE IF rotation_speed # 0
    THEN LET ideal_rotation_direction == Rotate(motor.position, 1)
             slip_compensation == AbsCos(motor.point_vector, ideal_rotation_direction)
         IN  Fl(ArcPerAngleUnit(Length(motor.position)) * direction) \div slip_compensation
    ELSE 0

\* Drive.__init__(info): the fields of the drive object that never change.
Drive(info) ==
    LET velocity == <<FlDiv(info.velocity[1], frame_rate),
                      FlDiv(info.velocity[2], frame_rate)>>
        rotation_speed == FlDiv(info.ang_velocity, frame_rate)
        velocity_direction == IF velocity # <<0, 0>> THEN Normalize(velocity)
                              ELSE velocity
    IN  [velocity |-> velocity,
         rotation_speed |-> rotation_speed,
         velocity_direction |-> velocity_direction,
         rotation_normalize |-> IF rotation_speed # 0 THEN 1 ELSE 0,
         motors |-> info.motors,
         odometer_multiplier |->
             [i \in 1..Len(info.motors) |->
                 odometer_multiplier(velocity, velocity_direction, rotation_speed,
                                     motors[info.motors[i]], info.motor_direction[i])],
         error_linear |-> <<info.error.x, info.error.y>>,
         error_rotation |-> info.error.rotation,
         bias_linear |-> <<info.bias.x, info.bias.y>>,
         bias_rotation |-> info.bias.rotation]

\* A check of the first drive only.
Busy_first(buffers) == buffers[DriveOrder[1]] # 0

\* A check of the last drive only.
Busy_last(buffers) == buffers[DriveOrder[Len(DriveOrder)]] # 0

\* Drive.simulate: the check "the robot is currently moving".
Busy(buffers) == \E d \in DriveIds : buffers[d] # 0

\* Drive.simulate: error_total.
error_total(drive) ==
    drive.velocity_direction[1] * drive.error_linear[1]
    + drive.velocity_direction[2] * drive.error_linear[2]
    + (IF drive.rotation_normalize # 0
       THEN drive.rotation_normalize * drive.error_rotation ELSE 0)

\* Drive.move_update: the amount to move this frame.
move_amount(drive, buffer) ==
    LET speed == Fl(drive.rotation_speed + Length(drive.velocity))
    IN  IF buffer >= 0 THEN Min(buffer, speed) ELSE Max(buffer, -speed)

\* A decrement by the drive's full rate whatever the amount executed.
decrement_more(buffer, amount) == Fl(buffer - amount - Sign(amount))

\* A buffer that a frame leaves as it found it.
decrement_none(buffer, amount) == buffer

\* Drive.move_update: the buffer once decremented.
decrement(buffer, amount) == Fl(buffer - amount)

\* Drive.move_update: [move_vector_error, rotation_error] for an amount.
movement(drive, amount) ==
    LET rot == IF drive.rotation_speed # 0 THEN amount ELSE 0
        move_vector == VScale(drive.velocity_direction, amount)
    IN  << <<Fl(move_vector[1] + Fl(amount * drive.bias_linear[1])),
             Fl(move_vector[2] + Fl(amount * drive.bias_linear[2]))>>,
           Fl(rot + Fl(amount * drive.bias_rotation)) >>

\* Drive.move_update: the odometers after the loop over the drive's motors.
RECURSIVE odometer_update(_, _, _, _)
odometer_update(drive, amount, i, odo) ==
    IF i > Len(drive.motors) THEN odo
    ELSE odometer_update(drive, amount, i + 1,
             [odo EXCEPT ![drive.motors[i]] =
                 Fl(@ + Fl(amount * drive.odometer_multiplier[i]))])

(***************************************************************************)
(* robot.py                                                                *)
(***************************************************************************)
robot_start_position == <<2, 2>>    \* CONFIG.robot_start_position
robot_start_rotation == 2           \* CONFIG.robot_start_rotation (180 degrees)
robot_width == 2                    \* CONFIG.robot_width

\* CONFIG.robot_outline.
robot_outline ==
    << <<-(robot_width \div 2), -(robot_width \div 2)>>,
       <<-(robot_width \div 2), robot_width \div 2>>,
       <<robot_width \div 2, robot_width \div 2>>,
       <<robot_width \div 2, -(robot_width \div 2)>> >>

\* CONFIG.walls of the maze the robot moves in: one wall block in a 2 x 2 grid.
config_walls == << <<1, 1>>, <<1, 0>> >>

\* The wall list handed to Robot.move: Maze.reduced_walls.
robot_walls == import_walls(config_walls).segments

\* Vector2 + Vector2 and Vector2 - Vector2 in floats.
FlAdd(u, v) == <<Fl(u[1] + v[1]), Fl(u[2] + v[2])>>

FlSub(u, v) == <<Fl(u[1] - v[1]), Fl(u[2] - v[2])>>

\* Robot.update_outline: outline_global for a position and rotation.
update_outline(pos, rot) ==
    [i \in 1..Len(robot_outline) |-> FlAdd(Rotate(robot_outline[i], rot), pos)]

\* Robot.update_outline: outline_global_segments, for ct in range(-1, len - 1).
outline_segments(outline) ==
    [i \in 1..Len(outline) |->
        <<outline[IF i = 1 THEN Len(outline) ELSE i - 1], outline[i]>>]

\* Robot.check_collision_walls_fast(walls).
check_collision_walls_fast(outline, walls) ==
    LET outline_global_segments == outline_segments(outline)
    IN  \E i \in 1..Len(outline), j \in 1..Len(walls) :
            check_collision_fast(outline_global_segments[i], walls[j])

\* Robot.move(velocity, rotation, walls): the pose and outline the call
\* leaves, and whether it found a collision.
move(pos, rot, velocity, delta_rotation, walls) ==
    LET pos1 == FlAdd(pos, Rotate(velocity, rot))
        rot1 == Fl(rot + delta_rotation)
        outline1 == update_outline(pos1, rot1)
        collisions_found == check_collision_walls_fast(outline1, walls)
        pos2 == FlSub(pos1, Rotate(velocity, rot1))
        rot2 == Fl(rot1 - delta_rotation)
    IN  IF collisions_found
        THEN [position |-> pos2, rotation |-> rot2,
              outline_global |-> update_outline(pos2, rot2), collided |-> TRUE]
        ELSE [position |-> pos1, rotation |-> rot1,
              outline_global |-> outline1, collided |-> FALSE]

\* Robot.move_manual: speed and rotation_speed per frame (6 inches per
\* second at ten length units an inch, 120 angle units per second).
manual_speed == FlDiv(60, frame_rate)
manual_rotation_speed == FlDiv(120, frame_rate)

Keys == {"w", "s", "q", "e", "d", "a"}

\* Robot.move_manual: the move vector and rotation for the keys pressed.
manual_delta(keypress) ==
    LET k(key, amount) == IF key \in keypress THEN amount ELSE 0
    IN  << <<Fl(k("q", manual_speed) + k("e", -manual_speed)),
             Fl(k("w", manual_speed) + k("s", -manual_speed))>>,
           Fl(k("d", manual_rotation_speed) + k("a", -manual_rotation_speed)) >>

\* Robot.move_from_command: the loop over the drives from index i on;
\* returns the buffers, the odometers, the summed movement and the amount
\* each drive executed.
RECURSIVE drive_loop(_, _, _, _, _, _, _)
drive_loop(drvs, i, buffers, odo, move_vector, rot, amounts) ==
    IF i > Len(DriveOrder)
    THEN [move_buffer |-> buffers, odometer |-> odo, move_vector |-> move_vector,
          rotation |-> rot, amounts |-> amounts]
    ELSE LET d == DriveOrder[i]
             amount == move_amount(drvs[d], buffers[d])
             mv == movement(drvs[d], amount)
         IN  IF buffers[d] = 0
             THEN drive_loop(drvs, i + 1, buffers, odo, move_vector, rot, amounts)
             ELSE drive_loop(drvs, i + 1,
                      [buffers EXCEPT ![d] = decrement(buffers[d], amount)],
                      odometer_update(drvs[d], amount, 1, odo),
                      FlAdd(move_vector, mv[1]), Fl(rot + mv[2]),
                      [amounts EXCEPT ![d] = amount])

(***************************************************************************)
(* The robot's state machine: one action per operation of the main loop    *)
(* (simmer.py): the drive commands of Robot.command, and the frame's move. *)
(***************************************************************************)
\* The values a drive command carries.
CmdValues == {v \in {-3, 0, 5, MaxValue} : IsFloat(v)}

\* The key sets a frame may see pressed.
KeySets == {{"w"}, {"a"}, {"w", "d"}, {"t"}}

NoAmounts == [d \in DriveIds |-> 0]

NoTrack == [active |-> FALSE, d |-> "", value |-> 0, stored |-> 0, executed |-> 0,
            moved |-> <<0, 0>>, turned |-> 0, rounded |-> FALSE, updates |-> 0]

Op(op, d, ret, collided) == [op |-> op, d |-> d, ret |-> ret, collided |-> collided]

\* The receive slot of a run that does not follow it statement by statement.
NoSlot == main = <<>> /\ stored = <<>> /\ returned = <<>>

\* The ultrasonic sensor of a run that takes no reading.
NoSensor ==
    /\ sensor = <<>> /\ walls_to_check = <<>> /\ rays = <<>>
    /\ ray_lengths_squared = <<>> /\ output = <<>>
    /\ NoSlot

\* The packet functions and the TCP server of a run that does not use them.
NoInterface ==
    /\ data = <<>> /\ packet = <<>> /\ data_raw = <<>> /\ depacketized = <<>>
    /\ buffer_rx = <<>> /\ buffer_tx = <<>>
    /\ listener = <<>> /\ transmitter = <<>> /\ threads = <<>>
    /\ sent = <<>> /\ cmds = <<>> /\ responses = <<>> /\ simulated = <<>>
    /\ batches = 0

\* The variables no robot operation touches.
IdleRest == /\ NoInterface
            /\ NoSensor
            /\ wall_map = <<>> /\ reduced_walls = <<>>
            /\ line_segments = <<>> /\ merged_once = <<>> /\ merged_twice = <<>>
            /\ segment1 = <<>> /\ segment2 = <<>>
            /\ collisions = <<>> /\ collides_fast = FALSE

\* Robot.__init__ and the construction of CONFIG.drives, with the number of
\* commands and key frames counted as spent.
Constructed(spent) ==
    /\ \E cfg \in Configurations :
           drives = [d \in DriveIds |->
                        Drive(cfg[CHOOSE i \in 1..Len(DriveOrder) : DriveOrder[i] = d])]
    /\ move_buffer = [d \in DriveIds |-> 0]
    /\ odometer = [m \in MotorIds |-> 0]
    /\ position = robot_start_position
    /\ rotation = robot_start_rotation
    /\ outline_global = update_outline(robot_start_position, robot_start_rotation)
    /\ frame = 0
    /\ calls = spent
    /\ last = Op("init", "", "None", FALSE)
    /\ tracked = NoTrack
    /\ IdleRest
    /\ pc = "robot"

Init == Constructed(0)

\* utilities.add_error(value, pct_error): value + gauss * pct_error * value,
\* the random error sampled one unit either way.
add_error(value, pct_error) ==
    IF pct_error = 0 \/ value = 0 THEN {value}
    ELSE {Fl(value + error_value) : error_value \in {-1, 0, 1}}

\* Drive.simulate(value) on drive d, as called by Robot.command.
Simulate(d, value) ==
    /\ pc = "robot"
    /\ calls < MaxCalls
    /\ calls' = calls + 1
    /\ IF Busy(move_buffer)
       THEN /\ last' = Op("simulate", d, "False", FALSE)
            /\ UNCHANGED <<move_buffer, tracked>>
       ELSE \E value_error \in add_error(value, error_total(drives[d])) :
                /\ move_buffer' = [move_buffer EXCEPT ![d] = value_error]
                /\ last' = Op("simulate", d, "True", FALSE)
                /\ tracked' = [NoTrack EXCEPT !.active = TRUE, !.d = d,
                                              !.value = value, !.stored = value_error]
    /\ UNCHANGED <<drives, odometer, position, rotation, outline_global, frame>>
    /\ UNCHANGED <<maze_vars, sensor_vars, slot_vars, merge_vars, kernel_vars, interface_vars, pc>>

\* Robot.stop_drives, the 'xx' command.
StopDrives ==
    /\ pc = "robot"
    /\ calls < MaxCalls
    /\ calls' = calls + 1
    /\ move_buffer' = [d \in DriveIds |-> 0]
    /\ last' = Op("stop_drives", "xx", "DRIVE STOP", FALSE)
    /\ tracked' = NoTrack
    /\ UNCHANGED <<drives, odometer, position, rotation, outline_global, frame>>
    /\ UNCHANGED <<maze_vars, sensor_vars, slot_vars, merge_vars, kernel_vars, interface_vars, pc>>

\* What the frame's move_update calls add to the record of the tracked command.
Track(t, buffers, result) ==
    IF ~t.active \/ buffers[t.d] = 0 THEN NoTrack
    ELSE LET amount == result.amounts[t.d]
             mv == movement(drives[t.d], amount)
         IN  IF Abs(t.executed + amount) > MaxTrack THEN NoTrack
             ELSE [t EXCEPT !.executed = @ + amount,
                            !.moved = VAdd(@, mv[1]),
                            !.turned = @ + mv[2],
                            !.rounded = @ \/ ~IsFloat(buffers[t.d] - amount),
                            !.updates = Min(@ + 1, 2)]

\* Robot.move_from_command(walls): a frame in which no key is pressed.
MoveFromCommand ==
    /\ pc = "robot"
    /\ LET result == drive_loop(drives, 1, move_buffer, odometer, <<0, 0>>, 0, NoAmounts)
           moved == move(position, rotation, result.move_vector, result.rotation,
                         robot_walls)
       IN  /\ move_buffer' = result.move_buffer
           /\ odometer' = result.odometer
           /\ position' = moved.position
           /\ rotation' = moved.rotation
           /\ outline_global' = moved.outline_global
           /\ last' = Op("move_from_command", "", "None", moved.collided)
           /\ tracked' = Track(tracked, move_buffer, result)
    /\ frame' = 1 - frame
    /\ UNCHANGED <<drives, calls>>
    /\ UNCHANGED <<maze_vars, sensor_vars, slot_vars, merge_vars, kernel_vars, interface_vars, pc>>

\* Robot.move_manual(keypress, walls): a frame in which keys are pressed.
MoveManual(keypress) ==
    /\ pc = "robot"
    /\ calls < MaxCalls
    /\ calls' = calls + 1
    /\ LET delta == manual_delta(keypress)
           moved == move(position, rotation, delta[1], delta[2], robot_walls)
       IN  /\ position' = moved.position
           /\ rotation' = moved.rotation
           /\ outline_global' = moved.outline_global
           /\ last' = Op("move_manual", "", "None", moved.collided)
    /\ frame' = 1 - frame
    /\ UNCHANGED <<drives, move_buffer, odometer, tracked>>
    /\ UNCHANGED <<maze_vars, sensor_vars, slot_vars, merge_vars, kernel_vars, interface_vars, pc>>

Next ==
    \/ \E d \in DriveIds, value \in CmdValues : Simulate(d, value)
    \/ StopDrives
    \/ MoveFromCommand
    \/ \E keypress \in KeySets : MoveManual(keypress)

Spec == Init /\ [][Next]_vars

\* The runs in which no key is pressed and no 'xx' is sent: commands and
\* frames.  The main loop runs a frame after a frame, and with no key
\* pressed each frame runs Robot.move_from_command.
NextCommanded ==
    \/ \E d \in DriveIds, value \in CmdValues : Simulate(d, value)
    \/ MoveFromCommand

\* A run of one command.
InitOneCommand == Constructed(MaxCalls - 1)

\* A step of the main loop's frame count: of the steps of NextCommanded,
\* those of MoveFromCommand.
Tick == frame' = 1 - frame

FairSpec == InitOneCommand /\ [][NextCommanded]_vars /\ WF_frame(Tick)

(***************************************************************************)
(* Claims about the robot and its drives.                                  *)
(***************************************************************************)
\* C1: when Robot.move finds a collision at the proposed pose, the
\* position, the rotation and the world outline are, when move returns,
\* what they were before the call, whatever the translation and rotation.
C1_CollisionRestoresPose ==
    [][last'.collided =>
          /\ position' = position
          /\ rotation' = rotation
          /\ outline_global' = outline_global]_vars

\* C2: in every reachable state at most one drive has a non-zero move_buffer.
C2_AtMostOneBusy == Cardinality({d \in DriveIds : move_buffer[d] # 0}) <= 1

\* A drive is busy and a command to the other drive has just been refused.
C2_Witness ==
    /\ last.op = "simulate" /\ last.ret = "False"
    /\ \E d \in DriveIds : move_buffer[d] # 0 /\ last.d # d

\* C3: Drive.simulate called while any drive is busy returns False in that
\* call and changes no move_buffer and no odometer; and the refused value
\* is never applied later: a buffer leaves zero only in a simulate call
\* that is accepted, made when no drive is busy, on the drive it names.
C3_RefusedSimulate ==
    [][/\ (/\ last'.op = "simulate" /\ calls' # calls
           /\ \E d \in DriveIds : move_buffer[d] # 0)
          => (/\ last'.ret = "False"
              /\ move_buffer' = move_buffer
              /\ odometer' = odometer)
       /\ \A d \in DriveIds :
              (move_buffer[d] = 0 /\ move_buffer'[d] # 0)
              => (/\ last'.op = "simulate" /\ last'.ret = "True" /\ last'.d = d
                  /\ calls' # calls
                  /\ \A e \in DriveIds : move_buffer[e] = 0)]_vars

\* A command to the busy drive itself has just been refused.
C3_Witness ==
    /\ last.op = "simulate" /\ last.ret = "False"
    /\ move_buffer[last.d] # 0

\* A drive with zero error and zero bias.
ZeroErrorBias(drive) ==
    /\ drive.error_linear = <<0, 0>> /\ drive.error_rotation = 0
    /\ drive.bias_linear = <<0, 0>> /\ drive.bias_rotation = 0

\* The amounts executed so far and the remaining buffer make up the value,
\* and at buffer 0 the returned displacements and rotations sum to it.
Conserved(t) ==
    LET drive == drives[t.d]
    IN  /\ t.executed + move_buffer[t.d] = t.value
        /\ move_buffer[t.d] = 0 =>
              /\ t.moved = VScale(drive.velocity_direction, t.value)
              /\ drive.rotation_speed # 0 => t.turned = t.value

C5_ClampKeepsSign ==
    [][last'.op = "move_from_command" =>
          \A d \in DriveIds :
              LET amount == move_amount(drives[d], move_buffer[d])
                  rate == drives[d].rotation_speed + Length(drives[d].velocity)
              IN  move_buffer[d] # 0 =>
                     /\ amount = 0 \/ Sign(amount) = Sign(move_buffer[d])
                     /\ Abs(amount) = Min(Abs(move_buffer[d]), Abs(rate))
                     /\ Abs(move_buffer'[d]) <= Abs(move_buffer[d])]_vars

\* C6: with Robot.move_from_command run every frame, a busy drive's
\* move_buffer eventually is exactly 0 (and a new command is accepted).
C6_BufferDrains ==
    \A d \in DriveIds : (move_buffer[d] # 0) ~> (\A e \in DriveIds : move_buffer[e] = 0)

(***************************************************************************)
(* The wall import: Maze.import_walls applied to an occupancy grid.        *)
(***************************************************************************)
MaxRows == 2    \* rows of the occupancy grid
MaxCols == 3    \* columns of the occupancy grid

\* The rectangular occupancy grids: rows of cells, 0 a wall block, 1 free.
Grids ==
    UNION {[1..dim_y -> [1..dim_x -> {0, 1}]] : dim_y \in 1..MaxRows, dim_x \in 1..MaxCols}

\* The robot of a run that only applies a function of utilities.py or maze.py.
NoRobot ==
    /\ drives = <<>> /\ move_buffer = <<>> /\ odometer = <<>>
    /\ position = <<0, 0>> /\ rotation = 0 /\ outline_global = <<>>
    /\ frame = 0 /\ calls = 0
    /\ last = Op("init", "", "None", FALSE)
    /\ tracked = NoTrack

InitWalls ==
    /\ wall_map \in Grids
    /\ reduced_walls = <<>>
    /\ line_segments = <<>> /\ merged_once = <<>> /\ merged_twice = <<>>
    /\ segment1 = <<>> /\ segment2 = <<>>
    /\ collisions = <<>> /\ collides_fast = FALSE
    /\ NoRobot
    /\ NoSensor
    /\ NoInterface
    /\ pc = "start"

\* Maze.import_walls().
ImportWalls ==
    /\ pc = "start"
    /\ reduced_walls' = import_walls(wall_map)
    /\ pc' = "done"
    /\ UNCHANGED <<robot_vars, wall_map, sensor_vars, slot_vars, merge_vars, kernel_vars,
                 interface_vars>>

WallsSpec == InitWalls /\ [][ImportWalls]_vars

\* The cell (ct_x, ct_y), counted from 0, is a wall block of the grid.
Occupied(ct_x, ct_y) ==
    /\ ct_y + 1 \in 1..Len(wall_map)
    /\ ct_x + 1 \in 1..Len(wall_map[1])
    /\ wall_map[ct_y + 1][ct_x + 1] = 0

\* The edges shared by two edge-adjacent wall blocks, as segments with
\* their points in order.
SharedEdges ==
    LET L == wall_segment_length
        cells == {c \in (0..MaxCols) \X (0..MaxRows) : Occupied(c[1], c[2])}
    IN  {<<<<(c[1] + 1) * L, c[2] * L>>, <<(c[1] + 1) * L, (c[2] + 1) * L>>>> :
             c \in {c \in cells : Occupied(c[1] + 1, c[2])}}
        \cup
        {<<<<c[1] * L, (c[2] + 1) * L>>, <<(c[1] + 1) * L, (c[2] + 1) * L>>>> :
             c \in {c \in cells : Occupied(c[1], c[2] + 1)}}

\* The axis-aligned segment ls contains a part of the interior of the
\* axis-aligned edge: they lie on one line and overlap in more than a point.
CoversPartOf(ls, edge) ==
    LET a == SortPoints(ls)
        vertical == edge[1][1] = edge[2][1]
        axis == IF vertical THEN 2 ELSE 1
        other == IF vertical THEN 1 ELSE 2
        lo == Min(a[1][axis], a[2][axis])
        hi == Max(a[1][axis], a[2][axis])
    IN  /\ a[1][other] = edge[1][other] /\ a[2][other] = edge[1][other]
        /\ Max(lo, edge[1][axis]) < Min(hi, edge[2][axis])

\* C7: for every rectangular occupancy grid and every pair of
\* edge-adjacent wall blocks, no segment of the reduced wall set contains
\* any part of the interior of the edge the two blocks share.
C7_NoSharedEdge ==
    (pc = "done" /\ reduced_walls.raises = "") =>
        \A edge \in SharedEdges : \A i \in 1..Len(reduced_walls.segments) :
            ~CoversPartOf(reduced_walls.segments[i], edge)

\* The import returned walls for a grid that has two adjacent wall blocks
\* and a free cell.
C7_Witness ==
    /\ pc = "done" /\ reduced_walls.raises = ""
    /\ SharedEdges # {}
    /\ \E y \in 1..Len(wall_map) : \E x \in 1..Len(wall_map[1]) : wall_map[y][x] = 1
    /\ Len(reduced_walls.segments) >= 4

(***************************************************************************)
(* The merge functions applied to a list of segments, and applied again to *)
(* their own result.                                                       *)
(***************************************************************************)
MaxX == 4           \* the largest coordinate along a line of segments
MaxSegments == 3    \* the longest list of segments

\* Segments on the lines y = 0 and y = 1, either point first.
SlopedSegments ==
    {<<<<a, y>>, <<b, y>>>> : a \in 0..MaxX, b \in 0..MaxX, y \in 0..1} \
    {<<<<a, y>>, <<a, y>>>> : a \in 0..MaxX, y \in 0..1}

\* Segments on the lines x = 0 and x = 1, the same mirrored.
VerticalSegments == {<<<<ls[1][2], ls[1][1]>>, <<ls[2][2], ls[2][1]>>>> : ls \in SlopedSegments}

Lists(S) == UNION {[1..n -> S] : n \in 0..MaxSegments}

InitMerge ==
    /\ line_segments \in Lists(SlopedSegments) \cup Lists(VerticalSegments)
    /\ merged_once = <<>> /\ merged_twice = <<>>
    /\ wall_map = <<>> /\ reduced_walls = <<>>
    /\ segment1 = <<>> /\ segment2 = <<>>
    /\ collisions = <<>> /\ collides_fast = FALSE
    /\ NoRobot
    /\ NoSensor
    /\ NoInterface
    /\ pc = "start"

AllVertical(segs) == \A i \in 1..Len(segs) : is_vertical(segs[i])

\* merge_sloped_line_segments(line_segments), for a list of non-vertical segments.
MergeSloped ==
    /\ pc = "start"
    /\ line_segments = <<>> \/ ~AllVertical(line_segments)
    /\ merged_once' = Returns(merge_sloped_line_segments(line_segments))
    /\ pc' = "sloped"
    /\ UNCHANGED <<robot_vars, maze_vars, sensor_vars, slot_vars, line_segments, merged_twice, kernel_vars,
                 interface_vars>>

\* merge_vertical_line_segments(line_segments), for a list of vertical segments.
MergeVertical ==
    /\ pc = "start"
    /\ AllVertical(line_segments)
    /\ merged_once' = merge_vertical_line_segments(line_segments)
    /\ pc' = "vertical"
    /\ UNCHANGED <<robot_vars, maze_vars, sensor_vars, slot_vars, line_segments, merged_twice, kernel_vars,
                 interface_vars>>

\* The same function applied to its own result; an exception of the first
\* call leaves no result to apply it to.
MergeAgain ==
    /\ pc \in {"sloped", "vertical"}
    /\ merged_twice' =
          IF merged_once.raises # "" THEN merged_once
          ELSE IF pc = "sloped"
          THEN Returns(merge_sloped_line_segments(merged_once.segments))
          ELSE merge_vertical_line_segments(merged_once.segments)
    /\ pc' = "again"
    /\ UNCHANGED <<robot_vars, maze_vars, sensor_vars, slot_vars, line_segments, merged_once, kernel_vars,
                 interface_vars>>

NextMerge == MergeSloped \/ MergeVertical \/ MergeAgain

MergeSpec == InitMerge /\ [][NextMerge]_vars

\* The coordinate along the line: x for the sloped lists, y for the vertical.
Along(segs) == IF AllVertical(segs) THEN 2 ELSE 1

\* All the segments lie on one line of the model.
Collinear(segs) ==
    LET o == 3 - Along(segs)
    IN  \A i \in 1..Len(segs) : segs[i][1][o] = segs[1][1][o] /\ segs[i][2][o] = segs[1][1][o]

Lo(ls, axis) == Min(ls[1][axis], ls[2][axis])

Hi(ls, axis) == Max(ls[1][axis], ls[2][axis])

\* The union of the segments of a collinear list is connected: every unit
\* step between its extremes lies in some segment.
Connected(segs) ==
    LET x == Along(segs)
        lo == CHOOSE v \in 0..MaxX : /\ \E i \in 1..Len(segs) : Lo(segs[i], x) = v
                                     /\ \A i \in 1..Len(segs) : Lo(segs[i], x) >= v
        hi == CHOOSE v \in 0..MaxX : /\ \E i \in 1..Len(segs) : Hi(segs[i], x) = v
                                     /\ \A i \in 1..Len(segs) : Hi(segs[i], x) <= v
    IN  \A k \in lo..(hi - 1) :
            \E i \in 1..Len(segs) : Lo(segs[i], x) <= k /\ k + 1 <= Hi(segs[i], x)

\* The segment between the two extreme endpoints of a collinear list.
Extreme(segs) ==
    LET x == Along(segs)
        first == CHOOSE i \in 1..Len(segs) : \A j \in 1..Len(segs) : Lo(segs[i], x) <= Lo(segs[j], x)
        final == CHOOSE i \in 1..Len(segs) : \A j \in 1..Len(segs) : Hi(segs[i], x) >= Hi(segs[j], x)
        point(v) == IF x = 1 THEN <<v, segs[1][1][2]>> ELSE <<segs[1][1][1], v>>
    IN  <<point(Lo(segs[first], x)), point(Hi(segs[final], x))>>

Distinct(segs) ==
    \A i, j \in 1..Len(segs) : i # j => SortPoints(segs[i]) # SortPoints(segs[j])

\* C8: for every list of collinear segments whose union is connected (the
\* segments distinct), the merge returns exactly one segment, and its
\* endpoints are the two extreme endpoints of the input.
C8_MergesToOne ==
    (/\ pc \in {"sloped", "vertical"} /\ line_segments # <<>>
     /\ Distinct(line_segments)
     /\ Collinear(line_segments) /\ Connected(line_segments))
    => merged_once = Returns(<<Extreme(line_segments)>>)

Range(f) == {f[i] : i \in 1..Len(f)}

\* C9: merging is idempotent: the merge applied to its own result returns
\* that result again, as a set of segments.
C9_Idempotent ==
    pc = "again" =>
        /\ merged_once.raises = "" /\ merged_twice.raises = ""
        /\ Range(merged_twice.segments) = Range(merged_once.segments)

(***************************************************************************)
(* The collision kernel: both tests applied to a pair of segments.         *)
(***************************************************************************)
MaxCoord == 2    \* the largest coordinate of a segment's point

Points == (0..MaxCoord) \X (0..MaxCoord)

InitKernel ==
    /\ segment1 \in Points \X Points
    /\ segment2 \in Points \X Points
    /\ collisions = <<>> /\ collides_fast = FALSE
    /\ wall_map = <<>> /\ reduced_walls = <<>>
    /\ line_segments = <<>> /\ merged_once = <<>> /\ merged_twice = <<>>
    /\ NoRobot
    /\ NoSensor
    /\ NoInterface
    /\ pc = "start"

\* utilities.collision(segment1, segment2).
Collision ==
    /\ pc = "start"
    /\ collisions' = collision(segment1, segment2)
    /\ pc' = "exact"
    /\ UNCHANGED <<robot_vars, maze_vars, sensor_vars, slot_vars, merge_vars, segment1, segment2, collides_fast,
                 interface_vars>>

\* utilities.check_collision_fast(segment1, segment2).
CheckCollisionFast ==
    /\ pc = "exact"
    /\ collides_fast' = check_collision_fast(segment1, segment2)
    /\ pc' = "done"
    /\ UNCHANGED <<robot_vars, maze_vars, sensor_vars, slot_vars, merge_vars, segment1, segment2, collisions,
                 interface_vars>>

NextKernel == Collision \/ CheckCollisionFast

KernelSpec == InitKernel /\ [][NextKernel]_vars

\* C10: for every pair of segments with coordinates in a bounded integer
\* range, collision returns a non-empty list if and only if
\* check_collision_fast returns True.
C10_KernelsAgree == pc = "done" => ((collisions # <<>>) <=> collides_fast)

\* Both tests found the collision of two collinear segments that touch in
\* one endpoint, one of them of length zero.
C10_Witness ==
    /\ pc = "done" /\ collisions # <<>> /\ collides_fast
    /\ segment1[1] = segment1[2] /\ segment2[1] # segment2[2]
    /\ segment1[1] = segment2[2]

(***************************************************************************)
(* Claims about Robot.move and the odometers.                              *)
(***************************************************************************)
\* What Robot.move(velocity, delta_rotation, walls) may leave behind when
\* it acts on the current pose: the fully moved pose when no outline
\* segment at the proposed pose meets a wall segment, the pose before the
\* call when one does.
CommitsOrRestores(velocity, delta_rotation) ==
    LET position_moved == FlAdd(position, Rotate(velocity, rotation))
        rotation_moved == Fl(rotation + delta_rotation)
        outline_moved == update_outline(position_moved, rotation_moved)
        intersects == \E segment_bot \in Range(outline_segments(outline_moved)) :
                         \E segment_wall \in Range(robot_walls) :
                             check_collision_fast(segment_bot, segment_wall)
    IN  IF intersects
        THEN /\ position' = position
             /\ rotation' = rotation
             /\ outline_global' = outline_global
        ELSE /\ position' = position_moved
             /\ rotation' = rotation_moved
             /\ outline_global' = outline_moved

\* C11: Robot.move tests every outline segment at the proposed pose against
\* every wall segment and commits the move (position + velocity rotated by
\* the rotation before the call, rotation + delta) if and only if no pair
\* intersects by check_collision_fast; the result is never a pose other
\* than the pose before the call or the fully moved pose.
C11_MoveCommitsOrRestores ==
    [][/\ last'.op = "move_from_command" =>
            LET result == drive_loop(drives, 1, move_buffer, odometer,
                                     <<0, 0>>, 0, NoAmounts)
            IN  CommitsOrRestores(result.move_vector, result.rotation)
       /\ \A keypress \in KeySets :
            MoveManual(keypress) =>
                CommitsOrRestores(manual_delta(keypress)[1],
                                  manual_delta(keypress)[2])]_vars

\* C20: in a frame in which Robot.move rejects the drives' proposed move
\* (a collision was found and the pose is what it was), no motor's
\* odometer changes.
C20_RejectedMoveKeepsOdometer ==
    [][(/\ last'.op = "move_from_command" /\ last'.collided
        /\ position' = position /\ rotation' = rotation
        /\ outline_global' = outline_global)
          => odometer' = odometer]_vars

(***************************************************************************)
(* interface/communication.py: the packet framing.  A Python string is a   *)
(* sequence of one-character strings.                                      *)
(***************************************************************************)
frame_start == "["
frame_end == "]"

\* Python's False where the caller expects a string: a sequence no string
\* of characters equals.
ReturnsFalse == <<"False">>

\* str.find(char): the 0-based index of the first occurrence from the
\* 1-based position i on, -1 when there is none.
RECURSIVE find_from(_, _, _)
find_from(string, char, i) ==
    IF i > Len(string) THEN -1
    ELSE IF string[i] = char THEN i - 1
    ELSE find_from(string, char, i + 1)

find(string, char) == find_from(string, char, 1)

\* The slice string[a:b] for 0 <= a and 0 <= b <= len(string).
Slice(string, a, b) == SubSeq(string, a + 1, b)

\* str.replace(old, new): every occurrence of old, found from the left
\* without overlap, becomes new.
RECURSIVE replace(_, _, _)
replace(string, old, new) ==
    IF Len(string) < Len(old) THEN string
    ELSE IF SubSeq(string, 1, Len(old)) = old
         THEN new \o replace(SubSeq(string, Len(old) + 1, Len(string)), old, new)
         ELSE <<Head(string)>> \o replace(Tail(string), old, new)

\* A depacketize that keeps the start marker in what it returns.
depacketize_with_marker(raw) ==
    LET start == find(raw, frame_start)
        end == find(raw, frame_end)
    IN  IF start >= 0 /\ end >= start
        THEN replace(Slice(raw, start, end), <<frame_start, frame_end>>, <<",">>)
        ELSE ReturnsFalse

\* TCPServer.depacketize(data_raw).
depacketize(raw) ==
    LET start == find(raw, frame_start)
        end == find(raw, frame_end)
    IN  IF start >= 0 /\ end >= start
        THEN replace(Slice(raw, start + 1, end), <<frame_start, frame_end>>, <<",">>)
        ELSE ReturnsFalse

\* TCPServer.packetize(data).
forbidden == {frame_start, frame_end, "\n"}

packetize(string) ==
    LET check_fail == \E char \in forbidden : \E i \in 1..Len(string) : string[i] = char
    IN  IF ~check_fail THEN <<frame_start>> \o string \o <<frame_end>>
        ELSE ReturnsFalse

(***************************************************************************)
(* The packet functions applied to bounded strings.                        *)
(***************************************************************************)
MaxData == 3    \* characters of a payload handed to packetize
MaxRaw == 6     \* characters of a raw string handed to depacketize

Strings(chars, n) == UNION {[1..k -> chars] : k \in 0..n}

DataChars == {frame_start, frame_end, "\n", ",", "a"}
RawChars == {frame_start, frame_end, "a", "b"}

\* Either a payload to packetize and send round, or a raw string received.
InitPacket ==
    /\ \/ /\ data \in Strings(DataChars, MaxData) /\ data_raw = <<>>
          /\ pc = "packetize"
       \/ /\ data = <<>> /\ data_raw \in Strings(RawChars, MaxRaw)
          /\ pc = "depacketize"
    /\ packet = <<>> /\ depacketized = <<>>
    /\ buffer_rx = <<>> /\ buffer_tx = <<>>
    /\ listener = <<>> /\ transmitter = <<>> /\ threads = <<>>
    /\ sent = <<>> /\ cmds = <<>> /\ responses = <<>> /\ simulated = <<>>
    /\ batches = 0
    /\ wall_map = <<>> /\ reduced_walls = <<>>
    /\ line_segments = <<>> /\ merged_once = <<>> /\ merged_twice = <<>>
    /\ segment1 = <<>> /\ segment2 = <<>>
    /\ collisions = <<>> /\ collides_fast = FALSE
    /\ NoRobot
    /\ NoSensor

Packetize ==
    /\ pc = "packetize"
    /\ packet' = packetize(data)
    /\ pc' = "packetized"
    /\ UNCHANGED <<data, data_raw, depacketized>>
    /\ UNCHANGED <<robot_vars, maze_vars, sensor_vars, slot_vars, merge_vars, kernel_vars, comm_vars>>

\* The packet comes back as the raw string of a receive.
Receive ==
    /\ pc = "packetized"
    /\ packet # ReturnsFalse
    /\ data_raw' = packet
    /\ pc' = "depacketize"
    /\ UNCHANGED <<data, packet, depacketized>>
    /\ UNCHANGED <<robot_vars, maze_vars, sensor_vars, slot_vars, merge_vars, kernel_vars, comm_vars>>

Depacketize ==
    /\ pc = "depacketize"
    /\ depacketized' = depacketize(data_raw)
    /\ pc' = "done"
    /\ UNCHANGED <<data, packet, data_raw>>
    /\ UNCHANGED <<robot_vars, maze_vars, sensor_vars, slot_vars, merge_vars, kernel_vars, comm_vars>>

NextPacket == Packetize \/ Receive \/ Depacketize

PacketSpec == InitPacket /\ [][NextPacket]_vars

\* The payload holds no start marker, no end marker and no newline.
Clean(string) == \A i \in 1..Len(string) : string[i] \notin forbidden

\* C15: for every payload without start marker, end marker and newline,
\* packetize returns start marker + payload + end marker, and depacketize
\* of that packet returns the payload unchanged.
C15_RoundTrip ==
    (packet # <<>> /\ Clean(data)) =>
        /\ packet = <<frame_start>> \o data \o <<frame_end>>
        /\ pc = "done" => depacketized = data

\* The payload "a,a" went round as "[a,a]".
C15_Witness ==
    /\ pc = "done" /\ data = <<"a", ",", "a">>
    /\ packet = <<"[", "a", ",", "a", "]">> /\ data_raw = packet
    /\ depacketized = data

\* The raw string of the framed payloads, one after the other.
RECURSIVE Framed(_)
Framed(payloads) ==
    IF payloads = <<>> THEN <<>>
    ELSE <<frame_start>> \o Head(payloads) \o <<frame_end>> \o Framed(Tail(payloads))

\* The payloads joined by commas.
RECURSIVE Joined(_)
Joined(payloads) ==
    IF Len(payloads) = 1 THEN Head(payloads)
    ELSE Head(payloads) \o <<",">> \o Joined(Tail(payloads))

\* The lists of two or three payloads of letters whose frames fit a raw string.
SegmentLists ==
    LET Payloads == Strings({"a", "b"}, MaxRaw \div 2 - 2)
    IN  {l \in [1..2 -> Payloads] \cup [1..3 -> Payloads] : Len(Framed(l)) <= MaxRaw}

\* C16: of a raw string of several framed segments one after the other,
\* '[a][b]...', depacketize returns the payloads of all segments joined by
\* commas, 'a,b,...'.
C16_JoinsSegments ==
    pc = "done" =>
        \A payloads \in SegmentLists :
            data_raw = Framed(payloads) => depacketized = Joined(payloads)

(***************************************************************************)
(* interface/communication.py: the TCP server, and Robot.command.          *)
(***************************************************************************)
\* The Python values of the buffers, the commands and the responses: a
\* string, a bool or a number; a list, math.nan or a string in a buffer.
Str(text) == [type |-> "str", text |-> text, num |-> 0]
Bool(b) == [type |-> "bool", text |-> <<>>, num |-> IF b THEN 1 ELSE 0]
Number(type, n) == [type |-> type, text |-> <<>>, num |-> n]
List(items) == [type |-> "list", items |-> items]
nan == [type |-> "float", items |-> <<>>]
Text(string) == [type |-> "str", items |-> string]

\* bool(value) of a buffer: math.nan and every non-empty list are true.
Truthy(buffer) == buffer.type = "float" \/ buffer.items # <<>>

\* TCPServer.loopback.
loopback == FALSE

\* str.split(sep): the pieces between the separators.
RECURSIVE split(_, _)
split(string, sep) ==
    LET i == find(string, sep)
    IN  IF i < 0 THEN <<string>>
        ELSE <<Slice(string, 0, i)>> \o split(Slice(string, i + 1, Len(string)), sep)

\* TCPServer.parse_commands(data): the [cmd_id, cmd_data] of every piece.
parse_commands(string) ==
    LET pieces == split(string, ",")
        parse(cmd) ==
            LET cmd_id == Slice(cmd, 0, Min(2, Len(cmd)))
                cmd_data == IF Len(cmd) = 2 THEN Number("int", 0)
                            ELSE Str(Slice(cmd, Min(3, Len(cmd)), Len(cmd)))
            IN  <<cmd_id, cmd_data>>
    IN  [i \in 1..Len(pieces) |-> parse(pieces[i])]

\* The decimal digits float() reads.
DigitValue(char) ==
    CASE char = "0" -> 0 [] char = "1" -> 1 [] char = "2" -> 2 [] char = "3" -> 3
      [] char = "4" -> 4 [] char = "5" -> 5 [] char = "6" -> 6 [] char = "7" -> 7
      [] char = "8" -> 8 [] char = "9" -> 9 [] OTHER -> -1

RECURSIVE Decimal(_, _)
Decimal(text, acc) ==
    IF text = <<>> THEN acc
    ELSE Decimal(Tail(text), 10 * acc + DigitValue(Head(text)))

\* A float() whose ValueError leaves the value of the command before.
float_stale(value) ==
    IF value.type # "str" THEN [raises |-> "", value |-> Fl(value.num)]
    ELSE IF value.text # <<>> /\ \A i \in 1..Len(value.text) : DigitValue(value.text[i]) >= 0
         THEN [raises |-> "", value |-> Fl(Decimal(value.text, 0))]
         ELSE [raises |-> "", value |-> 1]

\* float(cmd_data): the number of an int or of a string of digits, a
\* ValueError for the other strings of the commands sent here.
float(value) ==
    IF value.type # "str" THEN [raises |-> "", value |-> Fl(value.num)]
    ELSE IF value.text # <<>> /\ \A i \in 1..Len(value.text) : DigitValue(value.text[i]) >= 0
         THEN [raises |-> "", value |-> Fl(Decimal(value.text, 0))]
         ELSE [raises |-> "ValueError", value |-> 0]

\* Robot.devices, by the characters of the id: the drives.  (The motors and
\* the sensors answer a command with a number and store nothing.)
DeviceKey(d) == CASE d = "w0" -> <<"w", "0">> [] d = "r0" -> <<"r", "0">>

devices_get(cmd_id) ==
    IF \E d \in DriveIds : DeviceKey(d) = cmd_id
    THEN CHOOSE d \in DriveIds : DeviceKey(d) = cmd_id
    ELSE "False"

xx == <<"x", "x">>
DRIVE_STOP == <<"D", "R", "I", "V", "E", " ", "S", "T", "O", "P">>
Not_Found == <<"N", "o", "t", " ", "F", "o", "u", "n", "d">>

\* Robot.command: the outcomes of command i on what the commands before it
\* left: the move buffers, the responses, and the simulate calls made.
command_step(drvs, cmd, i, acc) ==
    LET target_device == devices_get(cmd[1])
        parsed == float(cmd[2])
        value == IF parsed.raises = "ValueError" THEN 0 ELSE parsed.value
    IN  IF target_device # "False"
        THEN IF Busy(acc.move_buffer)
             THEN {[acc EXCEPT !.responses = Append(@, <<cmd[1], Bool(FALSE)>>),
                               !.simulated = Append(@, <<i, target_device, value>>)]}
             ELSE {[acc EXCEPT !.move_buffer[target_device] = value_error,
                               !.responses = Append(@, <<cmd[1], Bool(TRUE)>>),
                               !.simulated = Append(@, <<i, target_device, value>>)] :
                      value_error \in add_error(value, error_total(drvs[target_device]))}
        ELSE IF cmd[1] = xx
             THEN {[acc EXCEPT !.move_buffer = [d \in DriveIds |-> 0],
                               !.responses = Append(@, <<cmd[1], Str(DRIVE_STOP)>>)]}
             ELSE {[acc EXCEPT !.responses = Append(@, <<cmd[1], Str(Not_Found)>>)]}

RECURSIVE command_loop(_, _, _, _)
command_loop(drvs, commands, i, acc) ==
    IF i > Len(commands) THEN {acc}
    ELSE UNION {command_loop(drvs, commands, i + 1, next) :
                   next \in command_step(drvs, commands[i], i, acc)}

command(drvs, commands, buffers) ==
    command_loop(drvs, commands, 1,
                 [move_buffer |-> buffers, responses |-> <<>>, simulated |-> <<>>])

\* The f-string of a response value (the numbers no drive returns left out).
Formatted(value) ==
    CASE value.type = "str" -> value.text
      [] value.type = "bool" -> IF value.num = 1 THEN <<"T", "r", "u", "e">>
                                ELSE <<"F", "a", "l", "s", "e">>

\* TCPServer.make_tx_packet: cmd:value of every response, joined by commas,
\* packetized; iterating over a float raises TypeError, and the second
\* character of a one-character string IndexError.
RECURSIVE joined_responses(_)
joined_responses(items) ==
    IF items = <<>> THEN <<>>
    ELSE items[1][1] \o <<":">> \o Formatted(items[1][2]) \o <<",">>
         \o joined_responses(Tail(items))

make_tx_packet(buffer) ==
    IF buffer.type = "float" THEN [raises |-> "TypeError", packet |-> <<>>]
    ELSE IF buffer.type = "str" THEN [raises |-> "IndexError", packet |-> <<>>]
    ELSE LET string == joined_responses(buffer.items)
         IN  [raises |-> "", packet |-> packetize(Slice(string, 0, Len(string) - 1))]

(***************************************************************************)
(* The listener thread, the transmitter thread and the main loop.          *)
(***************************************************************************)
MaxPackets == 2    \* connections the listener accepts in a run

\* What a client sends in one connection.
Packets ==
    { <<"[", "x", "x", "]">>,
      <<"[", "w", "0", ":", "5", "]">>,
      <<"[", "[", "z", "]">>,
      <<"[", "z", "z", ",", "w", "0", ":", "a", ",", "r", "0", ":", "5", "]">>,
      <<"w", "0", ":", "5">> }

Accepting == [at |-> "accept", data |-> <<>>]
Waiting == [at |-> "accept", packet |-> <<>>]

\* TCPServer.__init__ and start(), Robot.__init__ with the drives w0 and r0.
InitComm ==
    /\ drives = [d \in DriveIds |-> Drive(IF d = "w0" THEN w0_info ELSE r0_info)]
    /\ move_buffer = [d \in DriveIds |-> 0]
    /\ odometer = [m \in MotorIds |-> 0]
    /\ position = robot_start_position
    /\ rotation = robot_start_rotation
    /\ outline_global = update_outline(robot_start_position, robot_start_rotation)
    /\ frame = 0
    /\ calls = 0
    /\ last = Op("init", "", "None", FALSE)
    /\ tracked = NoTrack
    /\ NoSensor
    /\ buffer_rx = <<>>
    /\ buffer_tx = List(<<>>)
    /\ listener = Accepting
    /\ transmitter = Waiting
    /\ threads = [listen_thread |-> "running", talk_thread |-> "running",
                  main |-> "running"]
    /\ sent = <<>> /\ cmds = <<>> /\ responses = <<>> /\ simulated = <<>>
    /\ batches = 0
    /\ data = <<>> /\ packet = <<>> /\ data_raw = <<>> /\ depacketized = <<>>
    /\ wall_map = <<>> /\ reduced_walls = <<>>
    /\ line_segments = <<>> /\ merged_once = <<>> /\ merged_twice = <<>>
    /\ segment1 = <<>> /\ segment2 = <<>>
    /\ collisions = <<>> /\ collides_fast = FALSE
    /\ pc = "comm"

\* What no step of the server and the main loop touches.
comm_idle == <<drives, tracked, maze_vars, merge_vars, kernel_vars, packet_vars,
              sensor_vars, slot_vars, pc>>
robot_pose == <<move_buffer, odometer, position, rotation, outline_global, frame>>

\* cmd_listener, lines 63-89: a connection is accepted, the raw data
\* received and depacketized, and the receive buffer tested and, if empty,
\* written.
ListenerReceive(raw) ==
    /\ threads.main = "running" /\ threads.listen_thread = "running"
    /\ listener.at = "accept"
    /\ calls < MaxPackets
    /\ calls' = calls + 1
    /\ LET received == depacketize(raw)
       IN  IF received = ReturnsFalse \/ received = <<>>
           THEN /\ last' = Op("cmd_listener", "", "unframed", FALSE)
                /\ UNCHANGED <<buffer_rx, buffer_tx, listener>>
           ELSE IF buffer_rx = <<>>
           THEN /\ buffer_rx' = received
                /\ buffer_tx' = IF loopback /\ ~Truthy(buffer_tx)
                                THEN Text(received) ELSE buffer_tx
                /\ last' = Op("cmd_listener", "", "stored", FALSE)
                /\ UNCHANGED listener
           ELSE /\ listener' = [at |-> "full", data |-> received]
                /\ last' = Op("cmd_listener", "", "full", FALSE)
                /\ UNCHANGED <<buffer_rx, buffer_tx>>
    /\ UNCHANGED <<transmitter, threads, sent, cmds, responses, simulated, batches>>
    /\ UNCHANGED <<robot_pose, comm_idle>>

\* cmd_listener, line 90: the test of the transmit buffer.
ListenerCheckTx ==
    /\ threads.main = "running" /\ threads.listen_thread = "running"
    /\ listener.at = "full"
    /\ IF ~Truthy(buffer_tx)
       THEN /\ listener' = [listener EXCEPT !.at = "notice"]
            /\ last' = Op("cmd_listener", "", "buffer_tx empty", FALSE)
       ELSE /\ listener' = Accepting
            /\ last' = Op("cmd_listener", "", "no notice", FALSE)
    /\ UNCHANGED <<buffer_rx, buffer_tx, transmitter, threads, sent, cmds,
                   responses, simulated, batches, calls>>
    /\ UNCHANGED <<robot_pose, comm_idle>>

\* cmd_listener, line 91: the buffer-full notice is written.
ListenerNotice ==
    /\ threads.main = "running" /\ threads.listen_thread = "running"
    /\ listener.at = "notice"
    /\ buffer_tx' = nan
    /\ batches' = 0
    /\ listener' = Accepting
    /\ last' = Op("cmd_listener", "", "notice", FALSE)
    /\ UNCHANGED <<buffer_rx, transmitter, threads, sent, cmds, responses,
                   simulated, calls>>
    /\ UNCHANGED <<robot_pose, comm_idle>>

\* response_transmitter, lines 104-107 and 112-114: a connection is
\* accepted, the transmit buffer tested and the packet built.
TransmitterBuild ==
    /\ threads.main = "running" /\ threads.talk_thread = "running"
    /\ transmitter.at = "accept"
    /\ IF ~Truthy(buffer_tx)
       THEN /\ last' = Op("response_transmitter", "", "nothing to send", FALSE)
            /\ UNCHANGED <<buffer_tx, transmitter, threads, batches>>
       ELSE LET built == make_tx_packet(buffer_tx)
            IN  CASE built.raises = "TypeError" ->
                       /\ buffer_tx' = List(<<>>)
                       /\ batches' = 0
                       /\ last' = Op("response_transmitter", "", "flushed", FALSE)
                       /\ UNCHANGED <<transmitter, threads>>
                  [] built.raises = "IndexError" ->
                       /\ threads' = [threads EXCEPT !.talk_thread = "IndexError"]
                       /\ last' = Op("response_transmitter", "", "raised", FALSE)
                       /\ UNCHANGED <<buffer_tx, transmitter, batches>>
                  [] OTHER ->
                       /\ transmitter' = [at |-> "send", packet |-> built.packet]
                       /\ last' = Op("response_transmitter", "", "built", FALSE)
                       /\ UNCHANGED <<buffer_tx, threads, batches>>
    /\ UNCHANGED <<buffer_rx, listener, sent, cmds, responses, simulated, calls>>
    /\ UNCHANGED <<robot_pose, comm_idle>>

\* response_transmitter, lines 108-111: the packet is encoded and sent and
\* the transmit buffer reset; send may raise OSError, and encode of the
\* False of a refused packetize raises AttributeError, which nothing catches.
TransmitterSend ==
    /\ threads.main = "running" /\ threads.talk_thread = "running"
    /\ transmitter.at = "send"
    /\ transmitter' = Waiting
    /\ IF transmitter.packet = ReturnsFalse
       THEN /\ threads' = [threads EXCEPT !.talk_thread = "AttributeError"]
            /\ last' = Op("response_transmitter", "", "raised", FALSE)
            /\ UNCHANGED <<buffer_tx, sent, batches>>
       ELSE \/ /\ sent' = Append(sent, transmitter.packet)
               /\ buffer_tx' = List(<<>>)
               /\ batches' = 0
               /\ last' = Op("response_transmitter", "", "sent", FALSE)
               /\ UNCHANGED threads
            \/ /\ last' = Op("response_transmitter", "", "OSError", FALSE)
               /\ UNCHANGED <<buffer_tx, sent, batches, threads>>
    /\ UNCHANGED <<buffer_rx, listener, cmds, responses, simulated, calls>>
    /\ UNCHANGED <<robot_pose, comm_idle>>

\* The main loop of simmer.py, lines 121-136, with no key pressed:
\* get_buffer_rx, Robot.command, set_buffer_tx, Robot.move_from_command.
\* set_buffer_tx appends to buffer_tx; on a buffer that is no list the
\* append raises AttributeError, which ends the main loop and the process.
MainLoop ==
    /\ threads.main = "running"
    /\ buffer_rx' = <<>>
    /\ frame' = 1 - frame
    /\ LET commands == IF buffer_rx # <<>> THEN parse_commands(buffer_rx) ELSE <<>>
       IN  \E outcome \in IF commands # <<>> THEN command(drives, commands, move_buffer)
                          ELSE {[move_buffer |-> move_buffer, responses |-> <<>>,
                                 simulated |-> <<>>]} :
             LET raised == commands # <<>> /\ buffer_tx.type # "list"
                 result == drive_loop(drives, 1, outcome.move_buffer, odometer,
                                      <<0, 0>>, 0, NoAmounts)
                 moved == move(position, rotation, result.move_vector,
                               result.rotation, robot_walls)
             IN  /\ IF commands # <<>>
                    THEN /\ cmds' = commands
                         /\ responses' = outcome.responses
                         /\ simulated' = outcome.simulated
                    ELSE UNCHANGED <<cmds, responses, simulated>>
                 /\ IF raised
                    THEN /\ threads' = [threads EXCEPT !.main = "AttributeError"]
                         /\ move_buffer' = outcome.move_buffer
                         /\ last' = Op("main_loop", "", "raised", FALSE)
                         /\ UNCHANGED <<buffer_tx, batches, odometer, position,
                                        rotation, outline_global>>
                    ELSE /\ IF commands # <<>>
                            THEN /\ buffer_tx' = List(buffer_tx.items \o outcome.responses)
                                 /\ batches' = batches + 1
                            ELSE UNCHANGED <<buffer_tx, batches>>
                         /\ move_buffer' = result.move_buffer
                         /\ odometer' = result.odometer
                         /\ position' = moved.position
                         /\ rotation' = moved.rotation
                         /\ outline_global' = moved.outline_global
                         /\ last' = Op("main_loop", "",
                                       IF commands # <<>> THEN "commands" ELSE "None",
                                       moved.collided)
                         /\ UNCHANGED threads
    /\ UNCHANGED <<listener, transmitter, sent, calls>>
    /\ UNCHANGED comm_idle

NextComm ==
    \/ \E raw \in Packets : ListenerReceive(raw)
    \/ ListenerCheckTx
    \/ ListenerNotice
    \/ TransmitterBuild
    \/ TransmitterSend
    \/ MainLoop

CommSpec == InitComm /\ [][NextComm]_vars

\* C14: under every interleaving of the listener, the transmitter and the
\* main loop no step of the tick fails: the main loop keeps running, also
\* when the listener has written the buffer-full notice into buffer_tx and
\* the tick then writes the responses of the pending command.
C14_TickNeverFails == threads.main = "running"

\* C13: the transmit buffer never holds the responses of more than one
\* tick's command batch.
C13_OneBatchPending == batches <= 1


\* C12: a well-framed packet that arrives while buffer_rx is not empty
\* leaves buffer_rx as it was; the listener is done with it only when the
\* buffer-full notice is in the transmit buffer; and the notice leaves the
\* transmit buffer only by being sent to the client.
C12_DroppedWithNotice ==
    [][/\ (last'.op = "cmd_listener" /\ last'.ret = "full") => buffer_rx' = buffer_rx
       /\ (listener.at \in {"full", "notice"} /\ listener'.at = "accept")
             => buffer_tx' = nan
       /\ (buffer_tx = nan /\ buffer_tx' # nan) => Len(sent') > Len(sent)]_vars

\* C17: when the packet of the pending responses holds a start marker, an
\* end marker or a newline, packetize refuses it, nothing is sent for it,
\* and the transmitter thread keeps running.
C17_RefusedPacketSkipped ==
    [][(transmitter.at = "send" /\ transmitter.packet = ReturnsFalse
        /\ transmitter'.at = "accept")
          => /\ sent' = sent
             /\ threads'.talk_thread = "running"]_vars

\* The payload of a command is an int or a string of digits.
Numeric(cmd_data) ==
    \/ cmd_data.type = "int"
    \/ /\ cmd_data.text # <<>>
       /\ \A i \in 1..Len(cmd_data.text) : DigitValue(cmd_data.text[i]) >= 0

MaxTeleports == 1    \* teleport calls in a run
MaxTarget == 9       \* the largest coordinate of a target

\* CONFIG.maze_dim_x and CONFIG.maze_dim_y of the map in wall_map.
maze_dim_x == Len(wall_map[1]) * wall_segment_length
maze_dim_y == Len(wall_map) * wall_segment_length

\* An in_block for which no cell is a wall block.
in_block_free(vec) == FALSE

\* utilities.in_block(vec): the cell of the floor-divided coordinates is a
\* wall block.
in_block(vec) ==
    LET x_idx == vec[1] \div wall_segment_length
        y_idx == vec[2] \div wall_segment_length
    IN  wall_map[y_idx + 1][x_idx + 1] = 0

\* Robot.teleport(x, y, angle, walls) from the pose (pos, rot): the pose and
\* outline it leaves and what it returns.
teleport(pos, rot, x, y, angle, walls) ==
    LET original_position == <<pos, rot>>
        target == <<Fl(x), Fl(y)>>
        outline == update_outline(target, angle)
        restored == [position |-> original_position[1],
                     rotation |-> original_position[2],
                     outline_global |-> update_outline(original_position[1],
                                                       original_position[2]),
                     ret |-> "False"]
    IN  IF ~(0 < target[1] /\ target[1] < maze_dim_x
             /\ 0 < target[2] /\ target[2] < maze_dim_y)
        THEN restored
        ELSE IF ~in_block(target) /\ ~check_collision_walls_fast(outline, walls)
        THEN [position |-> target, rotation |-> angle, outline_global |-> outline,
              ret |-> "True"]
        ELSE restored

\* The 2 x 2 maps whose walls Maze.import_walls reduces without raising and
\* in which the robot starts in a free cell and clear of the walls.
TeleportGrids ==
    {map \in [1..2 -> [1..2 -> {0, 1}]] :
        /\ map[1][1] = 1
        /\ import_walls(map).raises = ""
        /\ ~check_collision_walls_fast(
               update_outline(robot_start_position, robot_start_rotation),
               import_walls(map).segments)}

TargetCoords == -1..MaxTarget
TargetAngles == {0, 1}

InitTeleport ==
    /\ wall_map \in TeleportGrids
    /\ reduced_walls = import_walls(wall_map).segments
    /\ drives = <<>> /\ move_buffer = <<>> /\ odometer = <<>>
    /\ position = robot_start_position
    /\ rotation = robot_start_rotation
    /\ outline_global = update_outline(robot_start_position, robot_start_rotation)
    /\ frame = 0 /\ calls = 0
    /\ last = Op("init", "", "None", FALSE)
    /\ tracked = NoTrack
    /\ NoInterface
    /\ NoSensor
    /\ line_segments = <<>> /\ merged_once = <<>> /\ merged_twice = <<>>
    /\ segment1 = <<>> /\ segment2 = <<>>
    /\ collisions = <<>> /\ collides_fast = FALSE
    /\ pc = "teleport"

\* Robot.teleport(x, y, angle, MAZE.reduced_walls).
Teleport(x, y, angle) ==
    /\ pc = "teleport"
    /\ calls < MaxTeleports
    /\ calls' = calls + 1
    /\ LET result == teleport(position, rotation, x, y, angle, reduced_walls)
       IN  /\ position' = result.position
           /\ rotation' = result.rotation
           /\ outline_global' = result.outline_global
           /\ last' = Op("teleport", <<x, y, angle>>, result.ret, FALSE)
    /\ UNCHANGED <<drives, move_buffer, odometer, frame, tracked>>
    /\ UNCHANGED <<maze_vars, sensor_vars, slot_vars, merge_vars, kernel_vars, interface_vars, pc>>

NextTeleport == \E x \in TargetCoords, y \in TargetCoords, angle \in TargetAngles :
                    Teleport(x, y, angle)

TeleportSpec == InitTeleport /\ [][NextTeleport]_vars

\* The point lies outside the maze extent or on its boundary.
OutsideExtent(x, y) ==
    \/ x <= 0 \/ x >= Len(wall_map[1]) * wall_segment_length
    \/ y <= 0 \/ y >= Len(wall_map) * wall_segment_length

\* The point lies in a wall block's cell, the boundary of the cell included.
InOccupiedCell(x, y) ==
    \E ct_y \in 1..Len(wall_map) : \E ct_x \in 1..Len(wall_map[1]) :
        /\ wall_map[ct_y][ct_x] = 0
        /\ (ct_x - 1) * wall_segment_length <= x /\ x <= ct_x * wall_segment_length
        /\ (ct_y - 1) * wall_segment_length <= y /\ y <= ct_y * wall_segment_length

\* C19: Robot.teleport returns False and leaves position, rotation and
\* outline what they were whenever the target lies outside the maze extent
\* or in a wall block's cell, points on the extent's and on the cells'
\* boundaries included; and when it returns True the pose is the target.
C19_TeleportRejectsOrArrives ==
    [][last'.op = "teleport" =>
          LET x == last'.d[1]
              y == last'.d[2]
              angle == last'.d[3]
          IN  /\ (OutsideExtent(x, y) \/ InOccupiedCell(x, y)) => last'.ret = "False"
              /\ last'.ret = "False" =>
                    /\ position' = position
                    /\ rotation' = rotation
                    /\ outline_global' = outline_global
              /\ last'.ret = "True" =>
                    /\ position' = <<x, y>>
                    /\ rotation' = angle
                    /\ outline_global' = update_outline(<<x, y>>, angle)]_vars

\* A teleport to a point on the edge between a wall block and the free cell
\* to its right, which in_block counts to the free cell, was refused and
\* left the robot where it started.
C19_Witness ==
    /\ last.op = "teleport" /\ last.ret = "False"
    /\ InOccupiedCell(last.d[1], last.d[2])
    /\ ~OutsideExtent(last.d[1], last.d[2])
    /\ ~in_block(<<last.d[1], last.d[2]>>)
    /\ position = robot_start_position /\ rotation = robot_start_rotation
    /\ outline_global = update_outline(robot_start_position, robot_start_rotation)


(***************************************************************************)
(* Claims about the construction of the drives.                            *)
(***************************************************************************)
\* C21: a Drive whose velocity vector and angular velocity are both
\* non-zero, or both zero, is rejected at construction: in every drive that
\* exists exactly one of the two is non-zero.
C21_ExactlyOneVelocity ==
    \A d \in DOMAIN drives :
        (drives[d].velocity # <<0, 0>>) # (drives[d].rotation_speed # 0)

(***************************************************************************)
(* devices/ultrasonic.py: the ranging sensor.  Angles are in quarter       *)
(* turns, so the rays of the fan are axis-aligned and every crossing with  *)
(* an axis-aligned wall is a point of the integer grid.                    *)
(***************************************************************************)
MaxRange == 3    \* the length of a ray

num_rays == 3
beamwidth == 3
max_range == MaxRange

\* A crossing point of utilities.collision as a coordinate pair.
Coordinates(pt) ==
    IF Len(pt) = 3 THEN <<pt[1] \div pt[3], pt[2] \div pt[3]>> ELSE pt

\* Ultrasonic._define_rays(): ray ct of the fan around rotation_global.
define_ray(s, ct) ==
    LET angle_ray == ((2 * ct - (num_rays - 1)) * beamwidth) \div (2 * num_rays)
        angle_ray_global == angle_ray + s.rotation_global
        direction == <<0, max_range>>
        ray_end == VAdd(Rotate(direction, angle_ray_global), s.position_global)
    IN  <<s.position_global, ray_end>>

define_rays(s) == [i \in 1..num_rays |-> define_ray(s, i - 1)]

DistSq(start, test_pt) ==
    (test_pt[1] - start[1]) * (test_pt[1] - start[1])
    + (test_pt[2] - start[2]) * (test_pt[2] - start[2])

\* utilities.closest_fast(start, test_pts) of a non-empty list: the first
\* point at the minimum squared distance, and that squared distance.
RECURSIVE closest_loop(_, _, _, _)
closest_loop(start, test_pts, i, best) ==
    IF i > Len(test_pts) THEN best
    ELSE LET test_pt == Coordinates(test_pts[i])
             distSq == DistSq(start, test_pt)
         IN  closest_loop(start, test_pts, i + 1,
                          IF best = <<>> \/ distSq < best[2]
                          THEN <<test_pt, distSq>> ELSE best)

closest_fast(start, test_pts) == closest_loop(start, test_pts, 1, <<>>)

\* A wall loop that records a hit and leaves the ray at its full length.
RECURSIVE wall_loop_full_ray(_, _, _, _, _)
wall_loop_full_ray(start, ray, length_squared, walls, i) ==
    IF i > Len(walls) THEN <<ray, length_squared>>
    ELSE LET collision_points == collision(ray, walls[i])
         IN  IF collision_points = <<>>
             THEN wall_loop_full_ray(start, ray, length_squared, walls, i + 1)
             ELSE wall_loop_full_ray(start, ray,
                                     closest_fast(start, collision_points)[2],
                                     walls, i + 1)

\* Ultrasonic.simulate, lines 132-140: the walls tested against one ray.  A
\* hit replaces the ray's end and its squared length.
RECURSIVE wall_loop(_, _, _, _, _)
wall_loop(start, ray, length_squared, walls, i) ==
    IF i > Len(walls) THEN <<ray, length_squared>>
    ELSE LET collision_points == collision(ray, walls[i])
         IN  IF collision_points = <<>>
             THEN wall_loop(start, ray, length_squared, walls, i + 1)
             ELSE LET hit == closest_fast(start, collision_points)
                  IN  wall_loop(start, <<ray[1], hit[1]>>, hit[2], walls, i + 1)

\* math.sqrt of a perfect square.
Sqrt(n) == CHOOSE r \in 0..n : r * r = n

SeqMin(s) == CHOOSE m \in Range(s) : \A v \in Range(s) : m <= v

\* The block of the environment: absent (environment.get gives False), or a
\* block with its four sides and whether _block_visible finds it in the beam.
block_square ==
    << <<<<1, 1>>, <<1, 2>>>>, <<<<1, 2>>, <<2, 2>>>>,
       <<<<2, 2>>, <<2, 1>>>>, <<<<2, 1>>, <<1, 1>>>> >>
Blocks == {"False", "hidden", "visible"}

\* Ultrasonic.simulate(value, environment): the rays, their squared
\* lengths and the reading before add_error.  _block_visible reads
\* BLOCK.height, an AttributeError when the environment has no block.
ultrasonic_simulate(s, BLOCK, MAZE_reduced_walls) ==
    LET rays0 == define_rays(s)
        walls == IF BLOCK = "visible" THEN block_square \o MAZE_reduced_walls
                 ELSE MAZE_reduced_walls
        done == [ct \in 1..num_rays |->
                    wall_loop(s.position_global, rays0[ct], max_range * max_range,
                              walls, 1)]
        lengths == [ct \in 1..num_rays |-> done[ct][2]]
    IN  IF BLOCK = "False"
        THEN [raises |-> "AttributeError", walls_to_check |-> <<>>,
              rays |-> s.rays, ray_lengths_squared |-> s.ray_lengths_squared,
              output |-> <<>>]
        ELSE [raises |-> "", walls_to_check |-> walls,
              rays |-> [ct \in 1..num_rays |-> done[ct][1]],
              ray_lengths_squared |-> lengths,
              output |-> <<Sqrt(SeqMin(lengths))>>]

\* The walls of a maze: the axis-aligned segments between grid points.
GridPoints == (0..MaxCoord) \X (0..MaxCoord)
Walls ==
    {w \in GridPoints \X GridPoints :
        /\ w[1] # w[2]
        /\ w[1][1] = w[2][1] \/ w[1][2] = w[2][2]
        /\ w[1][1] <= w[2][1] /\ w[1][2] <= w[2][2]}
\* MAZE.reduced_walls: no wall, one wall, or two walls in either order.
WallLists == {<<>>} \cup {<<w>> : w \in Walls} \cup (Walls \X Walls)

\* The sensor looks up or down the grid; the fan covers three of the four
\* directions either way.
Headings == {0, 2}

\* A constructed sensor (lines 71-72) and the environment of a reading.
InitSensor ==
    /\ \E position_global \in GridPoints, rotation_global \in Headings, BLOCK \in Blocks :
          LET s == [position_global |-> position_global,
                    rotation_global |-> rotation_global]
          IN  /\ sensor = [position_global |-> position_global,
                           rotation_global |-> rotation_global, BLOCK |-> BLOCK]
              /\ rays = define_rays(s)
              /\ ray_lengths_squared = [ct \in 1..num_rays |-> max_range * max_range]
    /\ reduced_walls \in WallLists
    /\ walls_to_check = <<>> /\ output = <<>>
    /\ wall_map = <<>>
    /\ line_segments = <<>> /\ merged_once = <<>> /\ merged_twice = <<>>
    /\ segment1 = <<>> /\ segment2 = <<>>
    /\ collisions = <<>> /\ collides_fast = FALSE
    /\ NoRobot
    /\ NoSlot
    /\ NoInterface
    /\ pc = "start"

\* sensor.simulate(0, environment).
UltrasonicSimulate ==
    /\ pc = "start"
    /\ \E result \in {ultrasonic_simulate(
                         [position_global |-> sensor.position_global,
                          rotation_global |-> sensor.rotation_global,
                          rays |-> rays, ray_lengths_squared |-> ray_lengths_squared],
                         sensor.BLOCK, reduced_walls)} :
           /\ walls_to_check' = result.walls_to_check
           /\ rays' = result.rays
           /\ ray_lengths_squared' = result.ray_lengths_squared
           /\ output' = result.output
           /\ pc' = IF result.raises = "" THEN "done" ELSE result.raises
    /\ UNCHANGED <<robot_vars, maze_vars, merge_vars, kernel_vars, interface_vars,
                   sensor, slot_vars>>

SensorSpec == InitSensor /\ [][UltrasonicSimulate]_vars

\* The middle value of an odd number of values (statistics.median).
IsMedian(m, s) ==
    /\ m \in Range(s)
    /\ 2 * Cardinality({i \in DOMAIN s : s[i] <= m}) > Len(s)
    /\ 2 * Cardinality({i \in DOMAIN s : s[i] >= m}) > Len(s)

\* C22: the reading of the ultrasonic sensor before the error is added is
\* the median of the ranges of its rays.
C22_ReadingIsMedian ==
    pc = "done" =>
        IsMedian(output[1], [ct \in 1..num_rays |-> Sqrt(ray_lengths_squared[ct])])


\* The squared distance from the sensor to the nearest point of the ray as
\* first defined that lies on a wall, and max_range squared when no point
\* of the ray lies on a wall.  Rays and walls are axis-aligned, so the
\* nearest such point is a point of the grid.
OnWall(pt, wall) ==
    /\ Min(wall[1][1], wall[2][1]) <= pt[1] /\ pt[1] <= Max(wall[1][1], wall[2][1])
    /\ Min(wall[1][2], wall[2][2]) <= pt[2] /\ pt[2] <= Max(wall[1][2], wall[2][2])

NearestHitSquared(s, ct, walls) ==
    LET ray == define_ray(s, ct - 1)
        unit == <<(ray[2][1] - ray[1][1]) \div max_range,
                  (ray[2][2] - ray[1][2]) \div max_range>>
        hits == {k \in 0..max_range :
                    \E i \in DOMAIN walls :
                        OnWall(VAdd(ray[1], VScale(unit, k)), walls[i])}
    IN  IF hits = {} THEN max_range * max_range
        ELSE LET k == CHOOSE k \in hits : \A h \in hits : k <= h IN k * k

\* C24: after Ultrasonic.simulate has tested every wall, in whatever order
\* the walls are listed, the squared length recorded for each ray is the
\* smallest squared distance from the sensor to a point where the ray as
\* first defined meets a wall, and max_range squared when it meets none.
C24_NearestHitPerRay ==
    pc = "done" =>
        \A ct \in 1..num_rays :
            ray_lengths_squared[ct] = NearestHitSquared(sensor, ct, walls_to_check)

\* A ray that meets two walls, the farther one tested last.
C24_Witness ==
    /\ pc = "done"
    /\ Len(walls_to_check) = 2
    /\ \E ct \in 1..num_rays :
          LET ray == define_ray(sensor, ct - 1)
              first == collision(ray, walls_to_check[1])
              second == collision(ray, walls_to_check[2])
          IN  /\ first # <<>> /\ second # <<>>
              /\ closest_fast(sensor.position_global, first)[2]
                     < closest_fast(sensor.position_global, second)[2]
              /\ ray_lengths_squared[ct]
                     = closest_fast(sensor.position_global, first)[2]


(***************************************************************************)
(* devices/drive.py: one drive command followed frame by frame.  Lengths   *)
(* are in tenths of an inch: velocity [0, 6] inches per second is 60 units *)
(* per second (slow_info), one unit per frame at frame_rate 60, and a      *)
(* command of 12 inches is 120 units.  A double carries the values of this *)
(* run with an error below 1e-12 inch, far below the unit, so the          *)
(* arithmetic of the run is kept exact rather than rounded to MantissaBits.*)
(***************************************************************************)
scenario_drive == Drive(slow_info)

scenario_motors == scenario_drive.motors

InitScenario ==
    /\ drives = [d \in DriveIds |-> IF d = "w0" THEN scenario_drive ELSE Drive(r0_info)]
    /\ move_buffer = [d \in DriveIds |-> 0]
    /\ odometer = [m \in MotorIds |-> 0]
    /\ position = robot_start_position
    /\ rotation = robot_start_rotation
    /\ outline_global = update_outline(robot_start_position, robot_start_rotation)
    /\ frame = 0
    /\ calls = 0
    /\ last = Op("init", "", "None", FALSE)
    /\ tracked = NoTrack
    /\ IdleRest
    /\ pc = "scenario"

\* Drive.simulate(12 inches) on w0 with zero error: the command is accepted
\* and stored whole.
ScenarioCommand ==
    /\ pc = "scenario"
    /\ ~tracked.active
    /\ ~Busy(move_buffer)
    /\ error_total(drives["w0"]) = 0
    /\ move_buffer' = [move_buffer EXCEPT !["w0"] = 12 * 10]
    /\ last' = Op("simulate", "w0", "True", FALSE)
    /\ tracked' = [NoTrack EXCEPT !.active = TRUE, !.d = "w0",
                                  !.value = 12 * 10, !.stored = 12 * 10]
    /\ UNCHANGED <<drives, odometer, position, rotation, outline_global, frame, calls>>
    /\ UNCHANGED <<maze_vars, sensor_vars, slot_vars, merge_vars, kernel_vars, interface_vars, pc>>

\* Drive.move_update() on w0, once per frame while the command lasts: the
\* amount, the odometers of the drive's motors, the buffer.  tracked counts
\* the frames and what they executed.
MoveUpdate ==
    /\ pc = "scenario"
    /\ tracked.active
    /\ move_buffer["w0"] # 0
    /\ LET drive == drives["w0"]
           amount == move_amount(drive, move_buffer["w0"])
       IN  /\ odometer' =
                  [m \in MotorIds |->
                      IF \E i \in DOMAIN drive.motors : drive.motors[i] = m
                      THEN LET i == CHOOSE i \in DOMAIN drive.motors : drive.motors[i] = m
                           IN  odometer[m] + amount * drive.odometer_multiplier[i]
                      ELSE odometer[m]]
           /\ move_buffer' = [move_buffer EXCEPT !["w0"] = @ - amount]
           /\ tracked' = [tracked EXCEPT !.executed = @ + amount, !.updates = @ + 1]
           /\ last' = Op("move_update", "w0", amount, FALSE)
    /\ frame' = 1 - frame
    /\ UNCHANGED <<drives, position, rotation, outline_global, calls>>
    /\ UNCHANGED <<maze_vars, sensor_vars, slot_vars, merge_vars, kernel_vars, interface_vars, pc>>

ScenarioSpec == InitScenario /\ [][ScenarioCommand \/ MoveUpdate]_vars

\* C23: the drive with velocity [0, 6] at frame rate 60, commanded 12
\* inches with zero error and bias, has an empty move buffer after exactly
\* 10 move_update frames of 1.2 inches each, and then each driven motor's
\* odometer has grown by 12 inches times the motor's multiplier.
C23_TenFramesOfTwelveTenths ==
    tracked.active =>
        /\ (move_buffer["w0"] = 0) <=> (tracked.updates = 10)
        /\ last.op = "move_update" => last.ret = 12
        /\ tracked.updates = 10 =>
               \A i \in DOMAIN scenario_motors :
                   odometer[scenario_motors[i]]
                       = 12 * 10 * scenario_drive.odometer_multiplier[i]


(* Claims about the list utilities.collision returns. *)
\* C25: utilities.collision returns a list of at most two points for every
\* pair of segments of non-zero length, and for collinear overlapping segments the points of
\* the list are the ends of the overlap, each listed once.
C25_AtMostTwoPoints ==
    pc = "exact" /\ segment1[1] # segment1[2] /\ segment2[1] # segment2[2] =>
        /\ Len(collisions) <= 2
        /\ \A i, j \in DOMAIN collisions : i # j => collisions[i] # collisions[j]


(* Claims about the outer boundary in the reduced wall set. *)
\* The outer boundary of the grid, cut at the grid lines: the pieces of one
\* wall_segment_length, as segments with their points in order.
BoundaryPieces ==
    LET L == wall_segment_length
        dim_y == Len(wall_map)
        dim_x == Len(wall_map[1])
    IN  {<<<<x * L, y * L>>, <<(x + 1) * L, y * L>>>> :
             x \in 0..(dim_x - 1), y \in {0, dim_y}}
        \cup
        {<<<<x * L, y * L>>, <<x * L, (y + 1) * L>>>> :
             x \in {0, dim_x}, y \in 0..(dim_y - 1)}

\* The axis-aligned segment ls contains the whole of the piece.
CoversAllOf(ls, piece) ==
    LET a == SortPoints(ls)
        vertical == piece[1][1] = piece[2][1]
        axis == IF vertical THEN 2 ELSE 1
        other == IF vertical THEN 1 ELSE 2
    IN  /\ a[1][other] = piece[1][other] /\ a[2][other] = piece[1][other]
        /\ Min(a[1][axis], a[2][axis]) <= piece[1][axis]
        /\ piece[2][axis] <= Max(a[1][axis], a[2][axis])

\* C26: for every grid of at least two rows and two columns, whatever
\* cells are wall blocks, optimize_walls returns a wall set in which every
\* piece of the outer boundary is contained in some segment.
C26_BoundaryCovered ==
    (pc = "done" /\ Len(wall_map) >= 2 /\ Len(wall_map[1]) >= 2) =>
        /\ reduced_walls.raises = ""
        /\ \A piece \in BoundaryPieces :
               \E i \in 1..Len(reduced_walls.segments) :
                   CoversAllOf(reduced_walls.segments[i], piece)


(***************************************************************************)
(* interface/communication.py: the receive slot, statement by statement.   *)
(* The listener thread runs cmd_listener; the main loop calls              *)
(* get_buffer_rx once per tick.  The threads interleave between any two    *)
(* statements.                                                             *)
(***************************************************************************)
\* A test that finds the receive buffer empty whatever it holds.
rx_always_empty(buffer) == TRUE

\* cmd_listener, line 81: "if not self.buffer_rx".
rx_empty(buffer) == buffer = <<>>

InitSlot ==
    /\ buffer_rx = <<>>
    /\ buffer_tx = List(<<>>)
    /\ listener = Accepting
    /\ main = [at |-> "tick", data |-> <<>>]
    /\ stored = <<>> /\ returned = <<>>
    /\ transmitter = Waiting
    /\ threads = [listen_thread |-> "running", talk_thread |-> "running",
                  main |-> "running"]
    /\ sent = <<>> /\ cmds = <<>> /\ responses = <<>> /\ simulated = <<>>
    /\ batches = 0
    /\ data = <<>> /\ packet = <<>> /\ data_raw = <<>> /\ depacketized = <<>>
    /\ sensor = <<>> /\ walls_to_check = <<>> /\ rays = <<>>
    /\ ray_lengths_squared = <<>> /\ output = <<>>
    /\ wall_map = <<>> /\ reduced_walls = <<>>
    /\ line_segments = <<>> /\ merged_once = <<>> /\ merged_twice = <<>>
    /\ segment1 = <<>> /\ segment2 = <<>>
    /\ collisions = <<>> /\ collides_fast = FALSE
    /\ NoRobot
    /\ pc = "slot"

slot_idle == <<robot_vars, maze_vars, merge_vars, kernel_vars, packet_vars,
               sensor_vars, pc, transmitter, threads, sent, responses, simulated,
               batches>>

\* cmd_listener, lines 63-78: accept, recv, depacketize; an unframed
\* receipt goes back to accept.
SlotReceive(raw) ==
    /\ pc = "slot"
    /\ listener.at = "accept"
    /\ Len(stored) + Len(cmds) < MaxPackets
    /\ LET received == depacketize(raw)
       IN  listener' = IF received = ReturnsFalse \/ received = <<>>
                       THEN Accepting
                       ELSE [at |-> "check", data |-> received]
    /\ UNCHANGED <<buffer_rx, buffer_tx, cmds, slot_vars, slot_idle>>

\* cmd_listener, line 81: the test of the receive buffer.
SlotCheckEmpty ==
    /\ pc = "slot"
    /\ listener.at = "check"
    /\ listener' = [listener EXCEPT !.at = IF rx_empty(buffer_rx) THEN "write"
                                           ELSE "full"]
    /\ UNCHANGED <<buffer_rx, buffer_tx, cmds, slot_vars, slot_idle>>

\* cmd_listener, line 82: self.buffer_rx = data.
SlotWrite ==
    /\ pc = "slot"
    /\ listener.at = "write"
    /\ buffer_rx' = listener.data
    /\ stored' = Append(stored, listener.data)
    /\ listener' = Accepting
    /\ UNCHANGED <<buffer_tx, cmds, main, returned, slot_idle>>

\* cmd_listener, lines 88-91: the payload is dumped; the notice is written
\* when the transmit buffer is empty.  cmds counts the dumped payloads.
SlotDump ==
    /\ pc = "slot"
    /\ listener.at = "full"
    /\ buffer_tx' = IF ~Truthy(buffer_tx) THEN nan ELSE buffer_tx
    /\ cmds' = Append(cmds, listener.data)
    /\ listener' = Accepting
    /\ UNCHANGED <<buffer_rx, slot_vars, slot_idle>>

\* get_buffer_rx, line 133: "if self.buffer_rx"; an empty buffer returns [].
GetCheck ==
    /\ pc = "slot"
    /\ main.at = "tick"
    /\ main' = [main EXCEPT !.at = IF buffer_rx # <<>> THEN "read" ELSE "tick"]
    /\ UNCHANGED <<buffer_rx, buffer_tx, listener, cmds, stored, returned, slot_idle>>

\* get_buffer_rx, line 134: data = self.buffer_rx.
GetRead ==
    /\ pc = "slot"
    /\ main.at = "read"
    /\ main' = [at |-> "clear", data |-> buffer_rx]
    /\ UNCHANGED <<buffer_rx, buffer_tx, listener, cmds, stored, returned, slot_idle>>

\* get_buffer_rx, line 135: self.buffer_rx = ''.
GetClear ==
    /\ pc = "slot"
    /\ main.at = "clear"
    /\ buffer_rx' = <<>>
    /\ main' = [main EXCEPT !.at = "return"]
    /\ UNCHANGED <<buffer_tx, listener, cmds, stored, returned, slot_idle>>

\* get_buffer_rx, line 136: the data is parsed and returned to the tick.
GetReturn ==
    /\ pc = "slot"
    /\ main.at = "return"
    /\ returned' = Append(returned, main.data)
    /\ main' = [at |-> "tick", data |-> <<>>]
    /\ UNCHANGED <<buffer_rx, buffer_tx, listener, cmds, stored, slot_idle>>

NextSlot ==
    \/ \E raw \in Packets : SlotReceive(raw)
    \/ SlotCheckEmpty
    \/ SlotWrite
    \/ SlotDump
    \/ GetCheck
    \/ GetRead
    \/ GetClear
    \/ GetReturn

SlotSpec == InitSlot /\ [][NextSlot]_vars

\* The payloads written and not yet returned: the one the tick holds, and
\* the one in the buffer unless it is the one the tick holds.
Pending ==
    (IF main.at \in {"clear", "return"} THEN <<main.data>> ELSE <<>>)
    \o (IF buffer_rx # <<>> /\ ~(main.at = "clear" /\ buffer_rx = main.data)
        THEN <<buffer_rx>> ELSE <<>>)

\* C27: under every interleaving of the listener's test and write with the
\* tick's test, read and clear, the payloads returned by get_buffer_rx,
\* followed by those still pending, are the payloads the listener wrote, in
\* the order written: none is lost and none is returned twice.
C27_EachPayloadOnce ==
    pc = "slot" => stored = returned \o Pending

\* The tick holds a payload it has read and cleared and has not yet
\* returned, and the listener has already written the next one.
C27_Witness ==
    /\ pc = "slot"
    /\ main.at = "return"
    /\ buffer_rx # <<>>
    /\ stored = <<main.data, buffer_rx>>
    /\ returned = <<>>


(* Claims about the transmit buffer between the tick and the transmitter. *)
\* C28: every response the tick appends to buffer_tx is in exactly one
\* packet sent: when response_transmitter resets buffer_tx after a send,
\* the packet it sent holds every response the buffer holds at the reset.
C28_ResetOnlyWhatWasSent ==
    [][(sent' # sent /\ buffer_tx.type = "list")
           => make_tx_packet(buffer_tx).packet = transmitter.packet]_vars


(* Claims about the robot's outline and the walls. *)
\* C29: the outline intersects no wall in the initial state, and after
\* every call of Robot.move (key moves, drive moves, translation and
\* rotation combined) the outline the call leaves intersects no wall.
C29_OutlineClearOfWalls ==
    pc = "robot" => ~check_collision_walls_fast(outline_global, robot_walls)


(***************************************************************************)
(* simmer.py, lines 118-136: one tick of the main loop with the keys held  *)
(* and the payload get_buffer_rx finds in the receive buffer as inputs.    *)
(***************************************************************************)
MaxTicks == 2    \* ticks in a run

\* What the listener may have stored before a tick: nothing, a drive
\* command, a stop, a drive command stopped in the same packet.
TickPayloads ==
    { <<>>,
      <<"w", "0", ":", "5">>,
      <<"r", "0", ":", "5">>,
      <<"x", "x">>,
      <<"w", "0", ":", "5", ",", "x", "x">> }

\* pygame.key.get_pressed(): no key, or keys held.
TickKeys == {{}, {"w"}, {"w", "d"}}

InitTick ==
    /\ drives = [d \in DriveIds |-> Drive(IF d = "w0" THEN w0_info ELSE r0_info)]
    /\ move_buffer = [d \in DriveIds |-> 0]
    /\ odometer = [m \in MotorIds |-> 0]
    /\ position = robot_start_position
    /\ rotation = robot_start_rotation
    /\ outline_global = update_outline(robot_start_position, robot_start_rotation)
    /\ frame = 0
    /\ calls = 0
    /\ last = Op("init", "", "None", FALSE)
    /\ tracked = NoTrack
    /\ NoSensor
    /\ buffer_rx = <<>>
    /\ buffer_tx = List(<<>>)
    /\ listener = <<>> /\ transmitter = <<>> /\ threads = <<>>
    /\ sent = <<>> /\ cmds = <<>> /\ responses = <<>> /\ simulated = <<>>
    /\ batches = 0
    /\ data = <<>> /\ packet = <<>> /\ data_raw = <<>> /\ depacketized = <<>>
    /\ wall_map = <<>> /\ reduced_walls = <<>>
    /\ line_segments = <<>> /\ merged_once = <<>> /\ merged_twice = <<>>
    /\ segment1 = <<>> /\ segment2 = <<>>
    /\ collisions = <<>> /\ collides_fast = FALSE
    /\ pc = "tick"

\* The tick: cmds = COMM.get_buffer_rx(); if cmds: Robot.command and
\* set_buffer_tx; then move_manual if a key is pressed, else
\* move_from_command.  last.d records the keys held.
MainLoopTick(payload, keypress) ==
    /\ pc = "tick"
    /\ calls < MaxTicks
    /\ calls' = calls + 1
    /\ frame' = 1 - frame
    /\ buffer_rx' = <<>>
    /\ LET commands == IF payload # <<>> THEN parse_commands(payload) ELSE <<>>
       IN  \E outcome \in IF commands # <<>> THEN command(drives, commands, move_buffer)
                          ELSE {[move_buffer |-> move_buffer, responses |-> <<>>,
                                 simulated |-> <<>>]} :
             /\ cmds' = commands
             /\ responses' = outcome.responses
             /\ simulated' = outcome.simulated
             /\ buffer_tx' = IF commands # <<>>
                             THEN List(buffer_tx.items \o outcome.responses)
                             ELSE buffer_tx
             /\ batches' = IF commands # <<>> THEN batches + 1 ELSE batches
             /\ IF keypress # {}
                THEN LET delta == manual_delta(keypress)
                         moved == move(position, rotation, delta[1], delta[2],
                                       robot_walls)
                     IN  /\ move_buffer' = outcome.move_buffer
                         /\ odometer' = odometer
                         /\ position' = moved.position
                         /\ rotation' = moved.rotation
                         /\ outline_global' = moved.outline_global
                         /\ last' = Op("move_manual", keypress, "None", moved.collided)
                ELSE LET result == drive_loop(drives, 1, outcome.move_buffer, odometer,
                                              <<0, 0>>, 0, NoAmounts)
                         moved == move(position, rotation, result.move_vector,
                                       result.rotation, robot_walls)
                     IN  /\ move_buffer' = result.move_buffer
                         /\ odometer' = result.odometer
                         /\ position' = moved.position
                         /\ rotation' = moved.rotation
                         /\ outline_global' = moved.outline_global
                         /\ last' = Op("move_from_command", keypress, "None",
                                       moved.collided)
    /\ UNCHANGED <<drives, tracked, listener, transmitter, threads, sent>>
    /\ UNCHANGED <<maze_vars, merge_vars, kernel_vars, packet_vars, sensor_vars,
                   slot_vars, pc>>

NextTick == \E payload \in TickPayloads, keypress \in TickKeys :
                MainLoopTick(payload, keypress)

TickSpec == InitTick /\ [][NextTick]_vars

\* Command i of the tick just run was a drive command that Drive.simulate
\* accepted.
AcceptedAt(i) == responses'[i][2] = Bool(TRUE)

\* The packet of the tick just run stops the drives after command i.
StoppedAfter(i) == \E j \in (i + 1)..Len(cmds') : cmds'[j][1] = xx

\* The drive of command i has had an increment applied in the tick just
\* run: its buffer is nearer to 0 than the commanded value and an odometer
\* has moved.
IncrementApplied(i) ==
    LET d == devices_get(cmds'[i][1])
        value == float(cmds'[i][2]).value
    IN  /\ Abs(move_buffer'[d]) < Abs(value)
        /\ odometer' # odometer

=============================================================================
